---------------------------- MODULE Spec2Model ----------------------------
(***************************************************************************)
(* State-machine model of the MnemoMind chat orchestrator (src/App.tsx):   *)
(* the session store, the intent router, the retrieval coordinator, the    *)
(* three answer pipelines and the accept / reject handling of code         *)
(* suggestions.                                                            *)
(*                                                                         *)
(* Strings of the program are sequences of tokens, so that concatenation   *)
(* and trimming are computed rather than assumed.  An optional field is a  *)
(* sequence of length 0 (undefined) or 1 (the value).                      *)
(*                                                                         *)
(* A turn (handleSendMessage and the pipeline it awaits) runs on the       *)
(* closure it captured when the user pressed send; it is cut into one      *)
(* action per await.  User handlers run between those actions, but only    *)
(* where the awaited promise is settled by the network (UserMayAct): an    *)
(* await of an already settled promise resumes in a microtask, before any  *)
(* user event is dispatched.                                               *)
(***************************************************************************)
EXTENDS Integers, Sequences, FiniteSets, TLC

(* ------------------------------ bounds ------------------------------ *)
MaxTurns == 1        \* turns accepted by handleSendMessage in one run
MaxSends == 2        \* turns accepted in a run of repeated sends
MaxChats == 2        \* sessions held in the list
MaxChunks == 2       \* fragments a generator stream yields
MaxUiOps == 2        \* config changes, toggles and session switches
MaxSuggestionActions == 2
MaxSegments == 3     \* pieces the content of a rendered message is made of
MaxSources == 2      \* results attached to a rendered message
MaxLists == 2        \* ranked lists handed to one fusion
MaxRank == 3         \* results in one ranked list
MaxServiceChats == 3 \* sessions the StateService holds, and deletions in one run
MaxMessages == 2     \* messages in one session of the StateService

(* ------------------------- program constants ------------------------ *)
RewriteMinLength == 3
TopK == 10
TitleLimit == 40
RrfK == 60

None == <<>>
Some(x) == <<x>>
IsSome(o) == Len(o) > 0
Val(o) == o[1]

Min(a, b) == IF a < b THEN a ELSE b

(* ------------------------------ files ------------------------------- *)
\* Source records of src/types.ts; f1 lives in a local dataset, f2 and f3
\* are served by the cloud index, f2 at the root (empty path).
FileIds == {"f1", "f2", "f3", "f4"}
Source(id) ==
    CASE id = "f1" -> [id |-> "f1", fileName |-> <<"a", ".", "ts">>, path |-> <<"src">>]
      [] id = "f2" -> [id |-> "f2", fileName |-> <<"b", ".", "md">>, path |-> <<>>]
      [] id = "f4" -> [id |-> "f4", fileName |-> <<"d", ".", "py">>, path |-> <<"lib">>]
      [] OTHER     -> [id |-> "f3", fileName |-> <<"c", ".", "PDF">>, path |-> <<"docs">>]
CloudFileIds == {"f2", "f3"}

ElasticResult(id, snippet, score) ==
    [source |-> Source(id), contentSnippet |-> snippet, score |-> score]

GroundingOptions(c, p, s, m) ==
    [useCloud |-> c, usePreloaded |-> p, useGoogleSearch |-> s, useGoogleMaps |-> m]
AllGroundingOptions ==
    {GroundingOptions(c, p, s, m) : c \in BOOLEAN, p \in BOOLEAN, s \in BOOLEAN, m \in BOOLEAN}
DefaultGrounding == GroundingOptions(TRUE, FALSE, FALSE, FALSE)

(* ----------------------------- messages ----------------------------- *)
ChatMessage(role, content, responseType) ==
    [role |-> role, content |-> content, attachment |-> FALSE,
     elasticSources |-> None, groundingChunks |-> None, suggestion |-> None,
     editedFile |-> None, responseType |-> responseType]

\* String.prototype.trim on a token string: blanks are the token " ".
RECURSIVE TrimStart(_)
TrimStart(s) == IF s # <<>> /\ Head(s) = " " THEN TrimStart(Tail(s)) ELSE s
RECURSIVE TrimEnd(_)
TrimEnd(s) ==
    IF s # <<>> /\ s[Len(s)] = " " THEN TrimEnd(SubSeq(s, 1, Len(s) - 1)) ELSE s
Trim(s) == TrimEnd(TrimStart(s))

\* query.substring(0, 40) + (query.length > 40 ? '...' : '')
TitleOf(query) ==
    SubSeq(query, 1, Min(TitleLimit, Len(query)))
        \o (IF Len(query) > TitleLimit THEN <<"...">> ELSE <<>>)

(* --------------------------- session store --------------------------- *)
\* The sessions and the messages an updater may be handed.
ChatsOf(cs) == {cs[i] : i \in 1..Len(cs)}
MessagesOf(cs) == UNION {{c.messages[i] : i \in 1..Len(c.messages)} : c \in ChatsOf(cs)}

\* Faulty variant of updateActiveChat: the updater is applied to every session.
updateActiveChat_everyChat(cs, id, updater) ==
    [i \in 1..Len(cs) |-> updater[cs[i]]]
\* updater: the function chat => chat handed to updateActiveChat
updateActiveChat(cs, id, updater) ==
    [i \in 1..Len(cs) |-> IF cs[i].id = id THEN updater[cs[i]] ELSE cs[i]]

WithDefaults(message) ==
    IF message.role = "model"
    THEN [message EXCEPT
            !.elasticSources = IF IsSome(@) THEN @ ELSE Some(<<>>),
            !.groundingChunks = IF IsSome(@) THEN @ ELSE Some(<<>>)]
    ELSE message

\* Faulty variant of addMessageToActiveChat: the message is put in front.
addMessageToActiveChat_prepend(cs, id, message) ==
    updateActiveChat(cs, id,
        [chat \in ChatsOf(cs) |-> [chat EXCEPT !.messages = <<WithDefaults(message)>> \o @]])
addMessageToActiveChat(cs, id, message) ==
    updateActiveChat(cs, id,
        [chat \in ChatsOf(cs) |-> [chat EXCEPT !.messages = Append(@, WithDefaults(message))]])

\* updater: the function message => message handed to
\* updateLastMessageInActiveChat
updateLastMessageInActiveChat(cs, id, updater) ==
    updateActiveChat(cs, id,
        [chat \in ChatsOf(cs) |->
            IF Len(chat.messages) = 0 THEN chat
            ELSE [chat EXCEPT !.messages =
                    [i \in 1..Len(chat.messages) |->
                        IF i = Len(chat.messages) THEN updater[chat.messages[i]]
                        ELSE chat.messages[i]]]])

\* Array.prototype.sort((a, b) => b.createdAt - a.createdAt): stable, newest first.
RECURSIVE InsertByCreatedAt(_, _)
InsertByCreatedAt(chat, sorted) ==
    IF sorted = <<>> THEN <<chat>>
    ELSE IF Head(sorted).createdAt >= chat.createdAt
         THEN <<Head(sorted)>> \o InsertByCreatedAt(chat, Tail(sorted))
         ELSE <<chat>> \o sorted
RECURSIVE SortByCreatedAt(_)
SortByCreatedAt(cs) ==
    IF cs = <<>> THEN <<>>
    ELSE InsertByCreatedAt(cs[Len(cs)], SortByCreatedAt(SubSeq(cs, 1, Len(cs) - 1)))


(* ------------------------------- state ------------------------------- *)
VARIABLES
    chats,                    \* useState<Chat[]>
    activeChatId,             \* useState<string | null>; NullId is null
    isLoading,                \* a turn is in flight
    editedFiles,              \* the edited-file ledger, keyed by Source.id
    isCodeGenerationEnabled,
    apiError,                 \* advisory shown to the user
    cloudSearchError,         \* source-scoped advisory of the cloud index
    apiKeySet,                \* VITE_GEMINI_API_KEY of the build
    turn,                     \* closure and locals of the turn in flight
    nextId,                   \* Date.now() of the next session created
    turns,                    \* turns accepted so far
    uiOps,                    \* config changes, toggles and switches so far
    suggestionActions,        \* accepts and rejects so far
    history,                  \* what the acceptances so far did (history)
    container,                \* nodes rendered for the content of the message in view
    selectedChunkResult,      \* useState<ElasticResult | null>: chunk in the viewer
    fusion,                   \* ranked lists handed to the fusion and what it returned
    stateService,             \* StateService: _chats$ and _activeChatId$
    mount                     \* the load effect: the item it read under HISTORY_KEY, and whether it ran

vars == <<chats, activeChatId, isLoading, editedFiles, isCodeGenerationEnabled,
          apiError, cloudSearchError, apiKeySet, turn, nextId, turns, uiOps,
          suggestionActions, history, container, selectedChunkResult, fusion,
          stateService,
          mount>>

NullId == 0

NewChat(id) ==
    [id |-> id, title |-> <<"New Chat">>, messages |-> <<>>, createdAt |-> id,
     dataSource |-> None, dataset |-> <<>>, groundingOptions |-> DefaultGrounding]

ActiveChats(cs, id) == {i \in 1..Len(cs) : cs[i].id = id}
\* chats.find(c => c.id === activeChatId)
HasActiveChat == ActiveChats(chats, activeChatId) # {}
activeChat == chats[CHOOSE i \in ActiveChats(chats, activeChatId) :
                        \A j \in ActiveChats(chats, activeChatId) : i <= j]
ChatById(cs, id) == cs[CHOOSE i \in 1..Len(cs) : cs[i].id = id]
HasChat(cs, id) == \E i \in 1..Len(cs) : cs[i].id = id

IdleTurn ==
    [pc |-> "idle", chatId |-> NullId, opts |-> DefaultGrounding, dataset |-> <<>>,
     codeGen |-> FALSE, query |-> <<>>, queryToUse |-> <<>>, attachment |-> FALSE,
     intent |-> "none", classifyOutcome |-> "none", pipeline |-> "none",
     classifyCalls |-> 0, searchCalls |-> 0, tailIdx |-> 0,
     accumulatedContent |-> <<>>, chunks |-> 0, elasticResults |-> <<>>,
     mode |-> "none", allGroundingAttributions |-> <<>>,
     responseObject |-> None, file |-> None,
     search |-> [settled |-> FALSE, cloudFailed |-> FALSE, local |-> <<>>,
                 returned |-> <<>>],
     outcome |-> "none", fragments |-> <<>>,
     generator |-> [calls |-> 0, context |-> <<>>, tools |-> {}],
     fetch |-> [settled |-> FALSE, content |-> <<>>],
     rewrite |-> [called |-> FALSE, succeeded |-> FALSE, reply |-> <<>>],
     metas |-> <<>>]

(* -------------------- persisted state and its restore ----------------- *)
\* A snapshot found under HISTORY_KEY: none, or the session of an earlier
\* run that holds a pending suggestion for f1, with its local dataset or
\* without one (f1 is then a file of the cloud index).
SavedSuggestion ==
    [file |-> Source("f1"), thought |-> <<"t">>, originalContent |-> <<"v0">>,
     suggestedContent |-> <<"v1">>, status |-> "pending"]
SavedChat ==
    [id |-> 1, title |-> <<"e", "d", "i", "t">>, createdAt |-> 1,
     dataSource |-> Some("files"),
     dataset |-> <<ElasticResult("f1", <<"v0">>, 1), ElasticResult("f4", <<"w0">>, 1)>>,
     groundingOptions |-> GroundingOptions(FALSE, TRUE, FALSE, FALSE),
     messages |-> <<
        [ChatMessage("user", <<"e", "d", "i", "t">>, "none") EXCEPT
            !.elasticSources = None],
        [ChatMessage("model", <<"I have a suggestion for file:", "a", ".", "ts">>,
                     "Code Generation") EXCEPT
            !.elasticSources = Some(<<>>), !.groundingChunks = Some(<<>>),
            !.suggestion = Some(SavedSuggestion)] >>]
Snapshots ==
    {None,
     Some([chats |-> <<SavedChat>>, activeChatId |-> 1]),
     Some([chats |-> <<[SavedChat EXCEPT !.dataSource = None, !.dataset = <<>>]>>,
           activeChatId |-> 1])}

\* Restore of one saved message: { elasticSources: [], groundingChunks: [], ...msg }
RestoreMessage(msg) ==
    [msg EXCEPT !.elasticSources = IF IsSome(@) THEN @ ELSE Some(<<>>),
                !.groundingChunks = IF IsSome(@) THEN @ ELSE Some(<<>>)]

\* A saved session is the record JSON.parse returns: a field the JSON lacks
\* is outside its DOMAIN, and its groundingOptions may lack fields too.
\* Faulty variant of RestoreChat: saved options are taken as they are.
RestoreChat_noMerge(chat) ==
    LET defaultGrounding == DefaultGrounding
        groundingOptions ==
            IF "groundingOptions" \in DOMAIN chat
            THEN chat.groundingOptions
            ELSE defaultGrounding
        messages ==
            IF "messages" \in DOMAIN chat
            THEN [i \in 1..Len(chat.messages) |-> RestoreMessage(chat.messages[i])]
            ELSE <<>>
        dataset == IF "dataset" \in DOMAIN chat THEN chat.dataset ELSE <<>>
    IN  [f \in DOMAIN chat \cup {"messages", "dataset", "groundingOptions"} |->
            CASE f = "messages" -> messages
              [] f = "dataset" -> dataset
              [] f = "groundingOptions" -> groundingOptions
              [] OTHER -> chat[f]]
RestoreChat(chat) ==
    LET defaultGrounding == DefaultGrounding
        \* { ...defaultGrounding, ...chat.groundingOptions }
        groundingOptions ==
            IF "groundingOptions" \in DOMAIN chat
            THEN [f \in DOMAIN defaultGrounding \cup DOMAIN chat.groundingOptions |->
                    IF f \in DOMAIN chat.groundingOptions
                    THEN chat.groundingOptions[f]
                    ELSE defaultGrounding[f]]
            ELSE defaultGrounding
        messages ==
            IF "messages" \in DOMAIN chat
            THEN [i \in 1..Len(chat.messages) |-> RestoreMessage(chat.messages[i])]
            ELSE <<>>
        dataset == IF "dataset" \in DOMAIN chat THEN chat.dataset ELSE <<>>
    IN  [f \in DOMAIN chat \cup {"messages", "dataset", "groundingOptions"} |->
            CASE f = "messages" -> messages
              [] f = "dataset" -> dataset
              [] f = "groundingOptions" -> groundingOptions
              [] OTHER -> chat[f]]

\* an item under HISTORY_KEY that JSON.parse rejects
Corrupt == [corrupt |-> TRUE]

\* The load effect: what it hands to setChats and setActiveChatId. Without
\* item, on an item that does not parse and when no session is restored it
\* calls handleNewChat.
LoadState(saved) ==
    IF IsSome(saved) /\ "corrupt" \notin DOMAIN Val(saved)
    THEN LET savedChats ==
                 IF "chats" \in DOMAIN Val(saved) THEN Val(saved).chats ELSE <<>>
             savedActiveChatId ==
                 IF "activeChatId" \in DOMAIN Val(saved)
                 THEN Val(saved).activeChatId ELSE NullId
             restoredChats ==
                 SortByCreatedAt([i \in 1..Len(savedChats) |-> RestoreChat(savedChats[i])])
         IN  IF savedActiveChatId # NullId /\ HasChat(restoredChats, savedActiveChatId)
             THEN [chats |-> restoredChats, activeChatId |-> savedActiveChatId]
             ELSE IF Len(restoredChats) > 0
                  THEN [chats |-> restoredChats, activeChatId |-> restoredChats[1].id]
                  ELSE [chats |-> <<NewChat(1)>>, activeChatId |-> 1]
    ELSE [chats |-> <<NewChat(1)>>, activeChatId |-> 1]

\* A snapshot of the same session saved under another grounding
\* configuration (the configuration is part of the persisted session), with
\* its local dataset or without one.
ConfiguredSnapshots ==
    {Some([chats |-> <<[SavedChat EXCEPT !.groundingOptions = opts]>>, activeChatId |-> 1]) :
        opts \in AllGroundingOptions}
    \cup
    {Some([chats |-> <<[SavedChat EXCEPT !.groundingOptions = opts,
                                         !.dataSource = None, !.dataset = <<>>]>>,
           activeChatId |-> 1]) :
        opts \in AllGroundingOptions}

\* Nothing accepted yet. first: the original captured by the first applied
\* acceptance of the file in this run; sinceClear: the same, since the ledger
\* was last emptied; applied: what the latest applied acceptance proposed;
\* last: the latest call of handleSuggestionAction.
NoHistory ==
    [first |-> [f \in FileIds |-> None],
     sinceClear |-> [f \in FileIds |-> None],
     applied |-> [f \in FileIds |-> None],
     last |-> [action |-> "none", messageIndex |-> 0, file |-> "none",
               isLocal |-> FALSE, success |-> FALSE]]

\* the state once the load effect has run
Started(saved, key) ==
    /\ chats = LoadState(saved).chats
    /\ activeChatId = LoadState(saved).activeChatId
    /\ isLoading = FALSE
    /\ editedFiles = [f \in FileIds |-> None]
    /\ isCodeGenerationEnabled = FALSE
    /\ apiError = None
    /\ cloudSearchError = None
    /\ apiKeySet = key
    /\ turn = IdleTurn
    /\ nextId = 2
    /\ turns = 0
    /\ uiOps = 0
    /\ suggestionActions = 0
    /\ history = NoHistory
    /\ container = <<>>
    /\ selectedChunkResult = None
    /\ mount = [savedState |-> saved, done |-> TRUE]

\* nothing handed to the fusion yet; the StateService as constructed
NoFusion == [lists |-> <<>>, order |-> <<>>, fused |-> None, fusedPermuted |-> None]
NewStateService ==
    [chats |-> <<>>, activeChatId |-> NullId, now |-> 1,
     last |-> [op |-> "none", chatId |-> NullId]]

Init ==
    /\ \E saved \in Snapshots, key \in BOOLEAN : Started(saved, key)
    /\ fusion = NoFusion
    /\ stateService = NewStateService

(* ------------------------- generator boundary ------------------------ *)
\* Error messages the SDK raises, and the ones geminiService.ts throws.
SdkSafetyError == <<"Candidate was blocked due to ", "SAFETY">>
SdkOtherError == <<"fetch failed">>
SdkErrors == {SdkSafetyError, SdkOtherError}
MissingKeyError == <<"VITE_GEMINI_API_KEY or VITE_API_KEY environment variable not set">>
BlockedBySafetyFilter == <<"BlockedBySafetyFilter">>
GeminiCommError == <<"There was an error communicating with the Gemini API.">>
GeminiCodeCommError ==
    <<"There was an error communicating with the Gemini API for code generation.">>

\* String.prototype.includes('SAFETY')
IncludesSafety(message) == \E i \in 1..Len(message) : message[i] = "SAFETY"

\* What a call of the generator does: "ok", or the SDK raises one of SdkErrors.
CallOutcomes == {"ok", "safety", "other"}
SdkErrorOf(outcome) == IF outcome = "safety" THEN SdkSafetyError ELSE SdkOtherError

\* classifyIntent: the text of the reply, or the error that leaves the
\* function.  None is a normal return.
ClassifyReplies == {"query_documents", "generate_code", "chit_chat", "unknown", "maybe"}
Intents == {"query_documents", "generate_code", "chit_chat", "unknown"}
classifyIntent(key, outcome, reply) ==
    IF ~key THEN [thrown |-> Some(MissingKeyError), intent |-> "none"]
    ELSE IF outcome # "ok" THEN [thrown |-> None, intent |-> "query_documents"]
    ELSE IF reply \in Intents THEN [thrown |-> None, intent |-> reply]
    ELSE [thrown |-> None, intent |-> "unknown"]

\* streamChitChatResponse: None when the stream is opened, else the error thrown.
streamChitChatResponse(key, outcome) ==
    IF ~key THEN Some(MissingKeyError)
    ELSE IF outcome # "ok" THEN Some(GeminiCommError)
    ELSE None

\* streamAiResponse
streamAiResponse(key, outcome) ==
    IF ~key THEN Some(MissingKeyError)
    ELSE IF outcome = "ok" THEN None
    ELSE IF IncludesSafety(SdkErrorOf(outcome)) THEN Some(BlockedBySafetyFilter)
    ELSE Some(GeminiCommError)

\* streamCodeGenerationResponse
streamCodeGenerationResponse(key, outcome) ==
    IF ~key THEN Some(MissingKeyError)
    ELSE IF outcome # "ok" THEN Some(GeminiCodeCommError)
    ELSE None

(* ------------------------------ the turn ----------------------------- *)
Commit(cs, t, cse) ==
    /\ chats' = cs
    /\ turn' = t
    /\ cloudSearchError' = cse
    /\ isLoading' = (t.pc # "idle")

\* Faulty variant of EndTurn: the turn is left where it failed or finished.
EndTurn_keepsPosition(t) == t
\* handleSendMessage's finally block
EndTurn(t) == [t EXCEPT !.pc = "idle"]

TailIdx(cs, id) == IF HasChat(cs, id) THEN Len(ChatById(cs, id).messages) ELSE 0

SafetyMsgChat ==
    <<"I'm sorry, but I can't provide a response to that. The request was blocked by the safety filter. Please try rephrasing your message.">>
SafetyMsgRag ==
    <<"I'm sorry, but I can't provide a response based on the provided documents. The request was blocked by the safety filter. Please try a different query.">>
NoResultsMsg ==
    <<"I couldn't find any relevant information in the available documents to answer your question.">>

\* Faulty variant of StartChitChat: no model message is appended for the turn.
StartChitChat_noPlaceholder(cs, t, cse) ==
    Commit(cs, [t EXCEPT !.pipeline = "chit_chat", !.pc = "cc_open",
                         !.tailIdx = TailIdx(cs, t.chatId)], cse)
\* handleChitChat up to its first await
StartChitChat(cs, t, cse) ==
    LET cs1 == addMessageToActiveChat(cs, t.chatId, ChatMessage("model", <<>>, "Chit-Chat"))
    IN  Commit(cs1, [t EXCEPT !.pipeline = "chit_chat", !.pc = "cc_open",
                              !.tailIdx = TailIdx(cs1, t.chatId)], cse)

\* catch block of handleChitChat
ChitChatError(message) ==
    IF IncludesSafety(message) THEN SafetyMsgChat
    ELSE <<"An error occurred: ">> \o message

\* Faulty variant of Finalize: the response kind of the message is left as
\* it was.
Finalize_keepsKind(cs, t, content, responseType) ==
    updateLastMessageInActiveChat(cs, t.chatId,
        [msg \in MessagesOf(cs) |-> [msg EXCEPT !.content = content]])
Finalize(cs, t, content, responseType) ==
    updateLastMessageInActiveChat(cs, t.chatId,
        [msg \in MessagesOf(cs) |-> [msg EXCEPT !.content = content, !.responseType = responseType]])

\* await streamChitChatResponse(...) returns or throws
ChitChatOpen(outcome) ==
    /\ turn.pc = "cc_open"
    /\ LET thrown == streamChitChatResponse(apiKeySet, outcome)
       IN  IF IsSome(thrown)
           THEN Commit(Finalize(chats, turn, ChitChatError(Val(thrown)), "Error"),
                       EndTurn([turn EXCEPT !.outcome = "open_fail"]), cloudSearchError)
           ELSE Commit(chats, [turn EXCEPT !.pc = "cc_stream",
                                           !.accumulatedContent = <<>>],
                       cloudSearchError)
    /\ UNCHANGED <<activeChatId, editedFiles, isCodeGenerationEnabled, apiError,
                   apiKeySet, nextId, turns, uiOps, suggestionActions, history,
                   container, selectedChunkResult, fusion, stateService, mount>>


(* ------------------------ retrieval coordinator ----------------------- *)
\* Reciprocal rank fusion (utils/rrf): every occurrence of a file at 1-based
\* rank r of a list adds 1 / (RrfK + r); RrfScale makes the sums integers.
RrfScale == 61 * 62 * 63 * 64
Contribution(rank) == RrfScale \div (RrfK + rank)

RECURSIVE Flatten(_)
Flatten(lists) == IF lists = <<>> THEN <<>> ELSE Head(lists) \o Flatten(Tail(lists))

RECURSIVE SumRanks(_, _, _)
SumRanks(list, id, r) ==
    IF r > Len(list) THEN 0
    ELSE (IF list[r].source.id = id THEN Contribution(r) ELSE 0) + SumRanks(list, id, r + 1)
RECURSIVE RrfScore(_, _)
RrfScore(lists, id) ==
    IF lists = <<>> THEN 0 ELSE SumRanks(Head(lists), id, 1) + RrfScore(Tail(lists), id)

\* the occurrence of id with the highest relevance of its own, the first on ties
RECURSIVE BestOccurrence(_, _, _)
BestOccurrence(flat, id, best) ==
    IF flat = <<>> THEN best
    ELSE IF Head(flat).source.id = id /\ (best = <<>> \/ Head(flat).score > best[1].score)
         THEN BestOccurrence(Tail(flat), id, <<Head(flat)>>)
         ELSE BestOccurrence(Tail(flat), id, best)

RECURSIVE FirstSeen(_, _)
FirstSeen(flat, seen) ==
    IF flat = <<>> THEN <<>>
    ELSE IF Head(flat).source.id \in seen THEN FirstSeen(Tail(flat), seen)
         ELSE <<Head(flat).source.id>> \o FirstSeen(Tail(flat), seen \cup {Head(flat).source.id})

\* stable insertion by descending fused score
RECURSIVE InsertByScore(_, _, _)
InsertByScore(id, sorted, lists) ==
    IF sorted = <<>> THEN <<id>>
    ELSE IF RrfScore(lists, Head(sorted)) >= RrfScore(lists, id)
         THEN <<Head(sorted)>> \o InsertByScore(id, Tail(sorted), lists)
         ELSE <<id>> \o sorted
RECURSIVE SortByScore(_, _)
SortByScore(ids, lists) ==
    IF ids = <<>> THEN <<>>
    ELSE InsertByScore(ids[Len(ids)], SortByScore(SubSeq(ids, 1, Len(ids) - 1), lists), lists)

reciprocalRankFusion(lists) ==
    LET flat == Flatten(lists)
        ranked == SortByScore(FirstSeen(flat, {}), lists)
    IN  [i \in 1..Len(ranked) |-> BestOccurrence(flat, ranked[i], <<>>)[1]]

Ids(results) == [i \in 1..Len(results) |-> results[i].source.id]

\* What the cloud index answers: a ranked list, or the request fails.
CloudAnswers ==
    {<<>>, <<ElasticResult("f3", <<"c3">>, 5)>>,
     <<ElasticResult("f2", <<"c2">>, 9), ElasticResult("f3", <<"c3">>, 5)>>}
CloudSearchFailed == <<"API search request failed">>

\* searchPreloadedDocuments (in-memory keyword scoring): the entries of the
\* dataset that match the query, all of them or none.
searchPreloadedDocuments(matches, dataset) == IF matches THEN dataset ELSE <<>>

\* Faulty variant of SearchPromises: the cloud index is asked whatever the
\* configuration says.
SearchPromises_cloudAlways(opts, dataset, cloudFailed, cloudAnswer, matches) ==
    <<IF cloudFailed THEN <<>> ELSE cloudAnswer>>
        \o (IF opts.usePreloaded /\ Len(dataset) > 0
            THEN <<searchPreloadedDocuments(matches, dataset)>> ELSE <<>>)
\* The promises searchElastic collects: one list per enabled source, the
\* cloud one already passed through its .catch(() => []).
SearchPromises(opts, dataset, cloudFailed, cloudAnswer, matches) ==
    (IF opts.useCloud THEN <<IF cloudFailed THEN <<>> ELSE cloudAnswer>> ELSE <<>>)
        \o (IF opts.usePreloaded /\ Len(dataset) > 0
            THEN <<searchPreloadedDocuments(matches, dataset)>> ELSE <<>>)

\* Faulty variants of FuseTopK: the lists are concatenated, not fused; the
\* slice starts after the first result.
FuseTopK_concat(searchResultsArrays) ==
    SubSeq(Flatten(searchResultsArrays), 1, Min(TopK, Len(Flatten(searchResultsArrays))))
FuseTopK_dropsFirst(searchResultsArrays) ==
    LET fusedResults == reciprocalRankFusion(searchResultsArrays)
    IN  SubSeq(fusedResults, 2, Min(TopK, Len(fusedResults)))
\* reciprocalRankFusion(searchResultsArrays) and fusedResults.slice(0, 10)
FuseTopK(searchResultsArrays) ==
    LET fusedResults == reciprocalRankFusion(searchResultsArrays)
    IN  SubSeq(fusedResults, 1, Min(TopK, Len(fusedResults)))

\* Faulty variant of searchElastic: the cloud promise has no .catch, so its
\* rejection rejects Promise.all and the outer catch returns [].
searchElastic_failFast(opts, dataset, cloudFailed, cloudAnswer, matches) ==
    LET searchPromises == SearchPromises(opts, dataset, cloudFailed, cloudAnswer, matches)
    IN  IF Len(searchPromises) = 0 \/ (opts.useCloud /\ cloudFailed) THEN <<>>
        ELSE FuseTopK(searchPromises)
searchElastic(opts, dataset, cloudFailed, cloudAnswer, matches) ==
    LET searchPromises == SearchPromises(opts, dataset, cloudFailed, cloudAnswer, matches)
    IN  IF Len(searchPromises) = 0 THEN <<>>
        ELSE FuseTopK(searchPromises)

\* what the call of searchElastic met with and gave back (history)
SearchLog(opts, dataset, cloudFailed, cloudAnswer, matches) ==
    [settled |-> TRUE,
     cloudFailed |-> opts.useCloud /\ cloudFailed,
     local |-> IF opts.usePreloaded /\ Len(dataset) > 0
               THEN searchPreloadedDocuments(matches, dataset) ELSE <<>>,
     returned |-> searchElastic(opts, dataset, cloudFailed, cloudAnswer, matches)]

\* the advisory searchElastic leaves behind
SearchAdvisory(opts, cloudFailed) ==
    IF opts.useCloud /\ cloudFailed THEN Some(CloudSearchFailed) ELSE None


(* ------------------------- grounded pipeline -------------------------- *)
\* rewriteQuery: the query handed to retrieval after the best-effort rewrite
RewriteReplies == {<<>>, <<"k", "w">>}
\* Faulty variant of rewriteQuery: no fallback to the query of the user.
rewriteQuery_noFallback(key, outcome, reply, userQuery) ==
    IF ~key \/ outcome # "ok" THEN <<>> ELSE Trim(reply)
rewriteQuery(key, outcome, reply, userQuery) ==
    IF ~key \/ outcome # "ok" THEN userQuery
    ELSE IF Trim(reply) # <<>> THEN Trim(reply) ELSE userQuery

\* Faulty variant of Decide: with nothing retrieved and no external search
\* the generator is asked all the same.
Decide_noResultsGenerates(cs, t, cse) ==
    LET shouldUseGroundingFallback ==
            Len(t.elasticResults) = 0 /\ (t.opts.useGoogleSearch \/ t.opts.useGoogleMaps)
        groundingType == IF t.opts.useGoogleMaps THEN "Maps Search" ELSE "Web Search"
    IN  IF shouldUseGroundingFallback
        THEN Commit(updateLastMessageInActiveChat(cs, t.chatId,
                        [msg \in MessagesOf(cs) |-> [msg EXCEPT !.responseType = groundingType]]),
                    [t EXCEPT !.mode = "fallback", !.pc = "fb_open"], cse)
        ELSE Commit(updateLastMessageInActiveChat(cs, t.chatId,
                        [msg \in MessagesOf(cs) |-> [msg EXCEPT !.responseType = "RAG"]]),
                    [t EXCEPT !.mode = "rag", !.pc = "rag_open"], cse)
\* the three ways handleQueryDocuments goes on once retrieval is settled
Decide(cs, t, cse) ==
    LET shouldUseGroundingFallback ==
            Len(t.elasticResults) = 0 /\ (t.opts.useGoogleSearch \/ t.opts.useGoogleMaps)
        groundingType == IF t.opts.useGoogleMaps THEN "Maps Search" ELSE "Web Search"
    IN  IF shouldUseGroundingFallback
        THEN Commit(updateLastMessageInActiveChat(cs, t.chatId,
                        [msg \in MessagesOf(cs) |-> [msg EXCEPT !.responseType = groundingType]]),
                    [t EXCEPT !.mode = "fallback", !.pc = "fb_open"], cse)
        ELSE IF Len(t.elasticResults) = 0
        THEN Commit(Finalize(cs, t, NoResultsMsg, "Error"),
                    EndTurn([t EXCEPT !.mode = "no_results", !.outcome = "no_results"]), cse)
        ELSE Commit(updateLastMessageInActiveChat(cs, t.chatId,
                        [msg \in MessagesOf(cs) |-> [msg EXCEPT !.responseType = "RAG"]]),
                    [t EXCEPT !.mode = "rag", !.pc = "rag_open"], cse)

\* retrieval, or straight on when neither index is enabled
AfterRewrite(cs, t, cse) ==
    IF t.opts.useCloud \/ t.opts.usePreloaded
    THEN Commit(cs, [t EXCEPT !.pc = "qd_search", !.searchCalls = @ + 1], None)
    ELSE Decide(cs, [t EXCEPT !.elasticResults = <<>>], cse)

\* Faulty variant of StartQueryDocuments: the placeholder is not appended
\* before the calls.
StartQueryDocuments_noPlaceholder(cs, t, cse) ==
    LET t1 == [t EXCEPT !.pipeline = "grounded", !.queryToUse = t.query,
                        !.tailIdx = TailIdx(cs, t.chatId)]
        needsRewrite == t.opts.useCloud \/ t.opts.useGoogleSearch \/ t.opts.useGoogleMaps
    IN  IF needsRewrite /\ Len(Trim(t.query)) > RewriteMinLength
        THEN Commit(cs, [t1 EXCEPT !.pc = "qd_rewrite"], cse)
        ELSE AfterRewrite(cs, t1, cse)

\* handleQueryDocuments up to its first await
StartQueryDocuments(cs, t, cse) ==
    LET placeholder ==
            [ChatMessage("model", <<>>, "RAG") EXCEPT
                !.elasticSources = Some(<<>>), !.groundingChunks = Some(<<>>)]
        cs1 == addMessageToActiveChat(cs, t.chatId, placeholder)
        t1 == [t EXCEPT !.pipeline = "grounded", !.queryToUse = t.query,
                        !.tailIdx = TailIdx(cs1, t.chatId)]
        needsRewrite == t.opts.useCloud \/ t.opts.useGoogleSearch \/ t.opts.useGoogleMaps
    IN  IF needsRewrite /\ Len(Trim(t.query)) > RewriteMinLength
        THEN Commit(cs1, [t1 EXCEPT !.pc = "qd_rewrite"], cse)
        ELSE AfterRewrite(cs1, t1, cse)

\* await rewriteQuery(...) returns
RewriteReturn(outcome, reply) ==
    /\ turn.pc = "qd_rewrite"
    /\ AfterRewrite(chats,
            [turn EXCEPT !.queryToUse = rewriteQuery(apiKeySet, outcome, reply, turn.query),
                         !.rewrite = [called |-> TRUE,
                                      succeeded |-> apiKeySet /\ outcome = "ok",
                                      reply |-> IF apiKeySet /\ outcome = "ok"
                                                THEN reply ELSE <<>>]],
            cloudSearchError)
    /\ UNCHANGED <<activeChatId, editedFiles, isCodeGenerationEnabled, apiError,
                   apiKeySet, nextId, turns, uiOps, suggestionActions, history,
                   container, selectedChunkResult, fusion, stateService, mount>>

\* Faulty variant of SearchReturn: the message is given the first result only.
SearchReturn_attachesFirst(cloudFailed, cloudAnswer, matches) ==
    /\ turn.pc = "qd_search"
    /\ LET elasticResults ==
               searchElastic(turn.opts, turn.dataset, cloudFailed, cloudAnswer, matches)
           advisory == SearchAdvisory(turn.opts, cloudFailed)
       IN  Decide(updateLastMessageInActiveChat(chats, turn.chatId,
                      [msg \in MessagesOf(chats) |-> [msg EXCEPT !.elasticSources =
                              Some(SubSeq(elasticResults, 1, Min(1, Len(elasticResults))))]]),
                  [turn EXCEPT !.elasticResults = elasticResults,
                               !.search = SearchLog(turn.opts, turn.dataset, cloudFailed,
                                                    cloudAnswer, matches)],
                  IF IsSome(advisory) THEN advisory ELSE cloudSearchError)
    /\ UNCHANGED <<activeChatId, editedFiles, isCodeGenerationEnabled, apiError,
                   apiKeySet, nextId, turns, uiOps, suggestionActions, history,
                   container, selectedChunkResult, fusion, stateService, mount>>
\* await searchElastic(queryToUse) returns in handleQueryDocuments
SearchReturn(cloudFailed, cloudAnswer, matches) ==
    /\ turn.pc = "qd_search"
    /\ LET elasticResults ==
               searchElastic(turn.opts, turn.dataset, cloudFailed, cloudAnswer, matches)
           advisory == SearchAdvisory(turn.opts, cloudFailed)
       IN  Decide(updateLastMessageInActiveChat(chats, turn.chatId,
                      [msg \in MessagesOf(chats) |-> [msg EXCEPT !.elasticSources = Some(elasticResults)]]),
                  [turn EXCEPT !.elasticResults = elasticResults,
                               !.search = SearchLog(turn.opts, turn.dataset, cloudFailed,
                                                    cloudAnswer, matches)],
                  IF IsSome(advisory) THEN advisory ELSE cloudSearchError)
    /\ UNCHANGED <<activeChatId, editedFiles, isCodeGenerationEnabled, apiError,
                   apiKeySet, nextId, turns, uiOps, suggestionActions, history,
                   container, selectedChunkResult, fusion, stateService, mount>>

\* catch blocks of handleQueryDocuments
FallbackError(message) ==
    IF message = BlockedBySafetyFilter THEN SafetyMsgChat
    ELSE <<"An error occurred during the external search: ">> \o message
RagError(message) ==
    IF message = BlockedBySafetyFilter THEN SafetyMsgRag
    ELSE <<"An error occurred during answer generation: ">> \o message

PipelineError(pc, message) ==
    CASE pc \in {"cc_open", "cc_stream"} -> ChitChatError(message)
      [] pc \in {"fb_open", "fb_stream"} -> FallbackError(message)
      [] OTHER -> RagError(message)

\* the tools streamAiResponse hands to the model: web search when it is
\* enabled; the maps flag adds no tool
Tools(groundingOptions) ==
    IF groundingOptions.useGoogleSearch THEN {"googleSearch"} ELSE {}

\* await streamAiResponse(...) returns or throws
GroundedOpen(outcome) ==
    /\ turn.pc \in {"fb_open", "rag_open"}
    /\ LET thrown == streamAiResponse(apiKeySet, outcome)
           apiGroundingOptions ==
               [turn.opts EXCEPT !.useGoogleSearch = FALSE, !.useGoogleMaps = FALSE]
           \* the call made: its context and the tools it leads to (history)
           called ==
               [turn EXCEPT !.generator =
                   [calls |-> @.calls + 1,
                    context |-> IF turn.pc = "fb_open" THEN <<>> ELSE turn.elasticResults,
                    tools |-> Tools(IF turn.pc = "fb_open" THEN turn.opts
                                    ELSE apiGroundingOptions)]]
       IN  IF IsSome(thrown)
           THEN Commit(Finalize(chats, turn, PipelineError(turn.pc, Val(thrown)), "Error"),
                       EndTurn([called EXCEPT !.outcome = "open_fail"]), cloudSearchError)
           ELSE Commit(chats,
                       [called EXCEPT !.pc = IF turn.pc = "fb_open" THEN "fb_stream"
                                             ELSE "rag_stream",
                                      !.accumulatedContent = <<>>,
                                      !.allGroundingAttributions = <<>>],
                       cloudSearchError)
    /\ UNCHANGED <<activeChatId, editedFiles, isCodeGenerationEnabled, apiError,
                   apiKeySet, nextId, turns, uiOps, suggestionActions, history,
                   container, selectedChunkResult, fusion, stateService, mount>>

(* ------------------------------ streaming ----------------------------- *)
StreamPcs == {"cc_stream", "fb_stream", "rag_stream"}

\* A chunk of the stream: its text part and the metadata of its candidate.
Attribution(uri, web, maps) == [uri |-> uri, web |-> web, maps |-> maps]
NoMeta == [groundingAttributions |-> None, webSearchQueries |-> 0, citationSources |-> None]
Chunk(text, meta) == [text |-> text, meta |-> meta]

getTextFromChunk(chunk) == IF IsSome(chunk.text) THEN Val(chunk.text) ELSE <<>>

\* a || (w.length > 0) ? a : undefined || c    (an array is truthy, also when empty)
newAttributions(meta) ==
    IF IsSome(meta.groundingAttributions) \/ meta.webSearchQueries > 0
    THEN meta.groundingAttributions
    ELSE meta.citationSources

\* attr.uri || attr.web?.uri || attr.maps?.uri
KeyOf(attr) ==
    IF IsSome(attr.uri) THEN attr.uri
    ELSE IF IsSome(attr.web) THEN attr.web
    ELSE attr.maps

RECURSIVE KeysInOrder(_, _)
KeysInOrder(attrs, seen) ==
    IF attrs = <<>> THEN <<>>
    ELSE IF ~IsSome(KeyOf(Head(attrs))) \/ Val(KeyOf(Head(attrs))) \in seen
         THEN KeysInOrder(Tail(attrs), seen)
         ELSE <<Val(KeyOf(Head(attrs)))>>
                  \o KeysInOrder(Tail(attrs), seen \cup {Val(KeyOf(Head(attrs)))})

\* new Map(entries).values(): first insertion fixes the position, the last value wins
LastWithKey(attrs, key) ==
    attrs[CHOOSE i \in 1..Len(attrs) :
            /\ KeyOf(attrs[i]) = Some(key)
            /\ \A j \in 1..Len(attrs) : KeyOf(attrs[j]) = Some(key) => j <= i]
\* Faulty variant of uniqueAttributions: only the entries without uri go.
uniqueAttributions_keepsAll(attrs) ==
    SelectSeq(attrs, LAMBDA attr : IsSome(KeyOf(attr)))
uniqueAttributions(attrs) ==
    LET keys == KeysInOrder(attrs, {})
    IN  [i \in 1..Len(keys) |-> LastWithKey(attrs, keys[i])]

GroundingChunk(attr) ==
    [web |-> IF IsSome(attr.web) THEN attr.web ELSE attr.uri, maps |-> attr.maps]
finalGroundingChunks(attrs) ==
    LET unique == uniqueAttributions(attrs)
    IN  SelectSeq([i \in 1..Len(unique) |-> GroundingChunk(unique[i])],
                  LAMBDA c : IsSome(c.web) \/ IsSome(c.maps))

\* Faulty variant of StreamChunk: the message is given the text of the
\* chunk, not the accumulator.
StreamChunk_writesDelta(chunk) ==
    /\ turn.pc \in StreamPcs
    /\ turn.chunks < MaxChunks
    /\ LET accumulatedContent == turn.accumulatedContent \o getTextFromChunk(chunk)
       IN  Commit(updateLastMessageInActiveChat(chats, turn.chatId,
                      [msg \in MessagesOf(chats) |->
                          [msg EXCEPT !.content = getTextFromChunk(chunk)]]),
                  [turn EXCEPT !.accumulatedContent = accumulatedContent,
                               !.chunks = @ + 1,
                               !.fragments = Append(@, getTextFromChunk(chunk)),
                               !.metas = Append(@, chunk.meta)],
                  cloudSearchError)
    /\ UNCHANGED <<activeChatId, editedFiles, isCodeGenerationEnabled, apiError,
                   apiKeySet, nextId, turns, uiOps, suggestionActions, history,
                   container, selectedChunkResult, fusion, stateService, mount>>
\* one iteration of for await (const chunk of responseStream)
StreamChunk(chunk) ==
    /\ turn.pc \in StreamPcs
    /\ turn.chunks < MaxChunks
    /\ LET accumulatedContent == turn.accumulatedContent \o getTextFromChunk(chunk)
           attrs == newAttributions(chunk.meta)
       IN  Commit(updateLastMessageInActiveChat(chats, turn.chatId,
                      [msg \in MessagesOf(chats) |-> [msg EXCEPT !.content = accumulatedContent]]),
                  [turn EXCEPT !.accumulatedContent = accumulatedContent,
                               !.chunks = @ + 1,
                               !.fragments = Append(@, getTextFromChunk(chunk)),
                               !.metas = Append(@, chunk.meta),
                               !.allGroundingAttributions =
                                    IF turn.pc = "fb_stream" /\ IsSome(attrs)
                                    THEN @ \o Val(attrs) ELSE @],
                  cloudSearchError)
    /\ UNCHANGED <<activeChatId, editedFiles, isCodeGenerationEnabled, apiError,
                   apiKeySet, nextId, turns, uiOps, suggestionActions, history,
                   container, selectedChunkResult, fusion, stateService, mount>>

\* the stream is exhausted
StreamEnd ==
    /\ turn.pc \in StreamPcs
    /\ Commit(IF turn.pc = "fb_stream"
              THEN updateLastMessageInActiveChat(chats, turn.chatId,
                       [msg \in MessagesOf(chats) |-> [msg EXCEPT !.groundingChunks =
                            Some(finalGroundingChunks(turn.allGroundingAttributions))]])
              ELSE chats,
              EndTurn([turn EXCEPT !.outcome = "stream_end"]), cloudSearchError)
    /\ UNCHANGED <<activeChatId, editedFiles, isCodeGenerationEnabled, apiError,
                   apiKeySet, nextId, turns, uiOps, suggestionActions, history,
                   container, selectedChunkResult, fusion, stateService, mount>>

\* the stream throws while it is consumed
StreamFail(error) ==
    /\ turn.pc \in StreamPcs
    /\ Commit(Finalize(chats, turn, PipelineError(turn.pc, error), "Error"),
              EndTurn([turn EXCEPT !.outcome = "stream_fail"]), cloudSearchError)
    /\ UNCHANGED <<activeChatId, editedFiles, isCodeGenerationEnabled, apiError,
                   apiKeySet, nextId, turns, uiOps, suggestionActions, history,
                   container, selectedChunkResult, fusion, stateService, mount>>


(* --------------------------- code pipeline ---------------------------- *)
EDITABLE_EXTENSIONS ==
    {"js", "ts", "jsx", "tsx", "py", "java", "c", "cpp", "cs", "go", "php", "rb",
     "rs", "swift", "kt", "kts", "dart", "sh", "bash", "zsh",
     "html", "xml", "json", "yaml", "yml", "md", "csv", "ini", "toml", "sql",
     "txt", "cfg", "conf", "gitignore", "dockerfile", "properties",
     "css", "scss", "less", "sass"}

\* String.prototype.toLowerCase on the tokens that occur as extensions
toLowerCase(token) ==
    CASE token = "PDF" -> "pdf"
      [] token = "TS" -> "ts"
      [] token = "MD" -> "md"
      [] OTHER -> token

\* fileName.split('.').pop(): the tokens after the last "."
RECURSIVE LastSegment(_)
LastSegment(name) ==
    IF \E i \in 1..Len(name) : name[i] = "."
    THEN LastSegment(Tail(name))
    ELSE name

\* Faulty variant of IsEditable: every result passes the filter.
IsEditable_any(result) == TRUE
IsEditable(result) ==
    LET extension == LastSegment(result.source.fileName)
    IN  Len(extension) = 1 /\ toLowerCase(extension[1]) \in EDITABLE_EXTENSIONS

\* f.path ? `${f.path}/${f.fileName}` : f.fileName
FullPath(f) == IF f.path # <<>> THEN f.path \o <<"/">> \o f.fileName ELSE f.fileName
\* `${result.source.path}/${result.source.fileName}` of the generator's context
ContextPath(f) == f.path \o <<"/">> \o f.fileName

\* the file index of the closure: local files when the local dataset is
\* enabled, cloud files when the cloud index is enabled and could be listed
allFiles(opts, dataset, cloudListed) ==
    (IF opts.usePreloaded /\ Len(dataset) > 0
     THEN {dataset[i].source.id : i \in 1..Len(dataset)} ELSE {})
        \cup (IF opts.useCloud /\ cloudListed THEN CloudFileIds ELSE {})

\* JSON.parse of the accumulated text: a value with the fields it holds, or
\* a text that does not parse
ResponseObject(err, filePath, thought, newContent) ==
    [parses |-> TRUE, error |-> err, filePath |-> filePath, thought |-> thought,
     newContent |-> newContent]
Unparseable ==
    [parses |-> FALSE, error |-> None, filePath |-> None, thought |-> None,
     newContent |-> None]
ParseErrorMessage == <<"Unexpected end of JSON input">>

AnalyzingMsg == <<"Analyzing request and searching relevant files...">>
NoEditableMsg ==
    <<"I couldn't find any relevant editable files (like code, markdown, txt) based on your request. I can only suggest edits for text-based files.">>
SafetyMsgCode ==
    <<"I'm sorry, but I can't generate a code suggestion for that. The request was blocked by the safety filter. Please try rephrasing your request.">>
MalformedMsg ==
    <<"The AI response for the code edit was incomplete or malformed. Missing required fields.">>

PreparingError(message) ==
    <<"Sorry, an error occurred preparing the code generation: ">> \o message

\* handleCodeGeneration up to its first await
StartCodeGeneration(cs, t, cse) ==
    LET cs1 == addMessageToActiveChat(cs, t.chatId,
                    ChatMessage("model", AnalyzingMsg, "Code Generation"))
        t1 == [t EXCEPT !.pipeline = "code", !.tailIdx = TailIdx(cs1, t.chatId)]
    IN  IF t.query = <<>>
        THEN Commit(Finalize(cs1, t1,
                        PreparingError(<<"Cannot generate code without a user query.">>),
                        "Error"),
                    EndTurn([t1 EXCEPT !.outcome = "no_query"]), cse)
        ELSE Commit(cs1, [t1 EXCEPT !.pc = "cg_search", !.searchCalls = @ + 1], None)

\* await searchElastic(latestQuery) returns in handleCodeGeneration
CodeSearchReturn(cloudFailed, cloudAnswer, matches) ==
    /\ turn.pc = "cg_search"
    /\ LET searchResults ==
               searchElastic(turn.opts, turn.dataset, cloudFailed, cloudAnswer, matches)
           editableSearchResults == SelectSeq(searchResults, IsEditable)
           advisory == SearchAdvisory(turn.opts, cloudFailed)
           cse == IF IsSome(advisory) THEN advisory ELSE cloudSearchError
           t == [turn EXCEPT !.search = SearchLog(turn.opts, turn.dataset, cloudFailed,
                                                  cloudAnswer, matches)]
       IN  IF Len(editableSearchResults) = 0
           THEN Commit(updateLastMessageInActiveChat(chats, turn.chatId,
                           [msg \in MessagesOf(chats) |-> [msg EXCEPT !.content = NoEditableMsg]]),
                       EndTurn([t EXCEPT !.outcome = "no_editable"]), cse)
           ELSE Commit(updateLastMessageInActiveChat(chats, turn.chatId,
                           [msg \in MessagesOf(chats) |-> [msg EXCEPT !.content =
                               <<"Found relevant files. Considering edits for ">>
                                   \o editableSearchResults[1].source.fileName]]),
                       [t EXCEPT !.elasticResults = editableSearchResults,
                                 !.pc = "cg_open"],
                       cse)
    /\ UNCHANGED <<activeChatId, editedFiles, isCodeGenerationEnabled, apiError,
                   apiKeySet, nextId, turns, uiOps, suggestionActions, history,
                   container, selectedChunkResult, fusion, stateService, mount>>

\* await streamCodeGenerationResponse(...) returns or throws
CodeOpen(outcome) ==
    /\ turn.pc = "cg_open"
    /\ LET thrown == streamCodeGenerationResponse(apiKeySet, outcome)
           called == [turn EXCEPT !.generator = [calls |-> @.calls + 1,
                                                 context |-> turn.elasticResults,
                                                 tools |-> {}]]
       IN  IF IsSome(thrown)
           THEN Commit(Finalize(chats, turn, PreparingError(Val(thrown)), "Error"),
                       EndTurn([called EXCEPT !.outcome = "open_fail"]), cloudSearchError)
           ELSE Commit(chats, [called EXCEPT !.pc = "cg_stream"], cloudSearchError)
    /\ UNCHANGED <<activeChatId, editedFiles, isCodeGenerationEnabled, apiError,
                   apiKeySet, nextId, turns, uiOps, suggestionActions, history,
                   container, selectedChunkResult, fusion, stateService, mount>>

\* the stream throws while the response text is accumulated
CodeStreamFail(error) ==
    /\ turn.pc = "cg_stream"
    /\ Commit(Finalize(chats, turn,
                  IF IncludesSafety(error) THEN SafetyMsgCode
                  ELSE <<"An error occurred while generating the code: ">> \o error,
                  "Error"),
              EndTurn([turn EXCEPT !.outcome = "stream_fail"]), cloudSearchError)
    /\ UNCHANGED <<activeChatId, editedFiles, isCodeGenerationEnabled, apiError,
                   apiKeySet, nextId, turns, uiOps, suggestionActions, history,
                   container, selectedChunkResult, fusion, stateService, mount>>

\* Faulty variant of IsLocalFile: every target is taken for a cloud file.
IsLocalFile_never(dataset, id) == FALSE
IsLocalFile(dataset, id) == \E i \in 1..Len(dataset) : dataset[i].source.id = id

\* a value in a condition: undefined and the empty string are falsy
Truthy(field) == IsSome(field) /\ Val(field) # <<>>

\* responseObject.filePath && responseObject.newContent && responseObject.thought
HasSuccessFields_withoutNewContent(responseObject) ==
    Truthy(responseObject.filePath) /\ Truthy(responseObject.thought)
HasSuccessFields(responseObject) ==
    /\ Truthy(responseObject.filePath)
    /\ Truthy(responseObject.newContent)
    /\ Truthy(responseObject.thought)

\* the stream ends: parse the text, resolve the path, start the content fetch
CodeStreamDone(responseObject, cloudListed) ==
    /\ turn.pc = "cg_stream"
    /\ LET index == allFiles(turn.opts, turn.dataset, cloudListed)
           matching == IF IsSome(responseObject.filePath)
                       THEN {f \in index : FullPath(Source(f)) = Val(responseObject.filePath)}
                       ELSE {}
           errorMessage ==
               IF ~responseObject.parses
               THEN <<"Sorry, I couldn't process the code generation response. It might be malformed. ">>
                        \o ParseErrorMessage
               ELSE IF Truthy(responseObject.error) THEN Val(responseObject.error)
               ELSE IF HasSuccessFields(responseObject)
               THEN <<"The model suggested editing a file path I couldn't match: ">>
                        \o Val(responseObject.filePath)
                        \o <<". Please check the path relative to your data source.">>
               ELSE MalformedMsg
           outcome ==
               IF ~responseObject.parses THEN "parse_fail"
               ELSE IF Truthy(responseObject.error) THEN "error_response"
               ELSE IF HasSuccessFields(responseObject) THEN "unmatched"
               ELSE "malformed"
           resolved == /\ responseObject.parses /\ ~Truthy(responseObject.error)
                       /\ HasSuccessFields(responseObject)
                       /\ matching # {}
           parsed == [turn EXCEPT !.responseObject = Some(responseObject)]
       IN  IF resolved
           THEN /\ Commit(chats,
                          [parsed EXCEPT !.pc = "cg_fetch",
                                         !.file = Some(CHOOSE f \in matching : TRUE)],
                          cloudSearchError)
                /\ apiError' = None
           ELSE /\ Commit(Finalize(chats, turn, errorMessage, "Error"),
                          EndTurn([parsed EXCEPT !.outcome = outcome]), cloudSearchError)
                /\ UNCHANGED apiError
    /\ UNCHANGED <<activeChatId, editedFiles, isCodeGenerationEnabled,
                   apiKeySet, nextId, turns, uiOps, suggestionActions, history,
                   container, selectedChunkResult, fusion, stateService, mount>>

\* getPreloadedFileContent: the snippet of the dataset entry of that file
getPreloadedFileContent(id, dataset) ==
    IF IsLocalFile(dataset, id)
    THEN Some(dataset[CHOOSE i \in 1..Len(dataset) : dataset[i].source.id = id].contentSnippet)
    ELSE None

\* getFileContent: the text of the file, or a text that starts with "Error:"
CloudContents == {<<"c0">>}
FetchErrors == {<<"Error:", "Failed to fetch content">>}
getFileContent(id, dataset, fetched) ==
    IF IsLocalFile(dataset, id)
    THEN LET content == getPreloadedFileContent(id, dataset)
         IN  IF IsSome(content) THEN Val(content)
             ELSE <<"Error:", "Content not found in local dataset">>
    ELSE fetched

\* Faulty variant of startsWithError: an error text passes for content.
startsWithError_never(content) == FALSE
startsWithError(content) == content # <<>> /\ Head(content) = "Error:"

\* await getFileContent(file) returns: attach the suggestion or the error
CodeFetchReturn(fetched) ==
    /\ turn.pc = "cg_fetch"
    /\ LET file == Source(Val(turn.file))
           responseObject == Val(turn.responseObject)
           originalContent == getFileContent(file.id, turn.dataset, fetched)
           suggestion == [file |-> file, thought |-> Val(responseObject.thought),
                          originalContent |-> originalContent,
                          suggestedContent |-> Val(responseObject.newContent),
                          status |-> "pending"]
           fetchedTurn == [turn EXCEPT !.fetch = [settled |-> TRUE,
                                                  content |-> originalContent]]
       IN  IF startsWithError(originalContent)
           THEN Commit(Finalize(chats, turn,
                           <<"Could not fetch the original content for ">> \o file.fileName
                               \o <<" to create the suggestion. ">> \o originalContent,
                           "Error"),
                       EndTurn([fetchedTurn EXCEPT !.outcome = "fetch_fail"]),
                       cloudSearchError)
           ELSE Commit(updateLastMessageInActiveChat(chats, turn.chatId,
                           [msg \in MessagesOf(chats) |-> [msg EXCEPT
                               !.content = <<"I have a suggestion for file:">> \o file.fileName,
                               !.suggestion = Some(suggestion)]]),
                       EndTurn([fetchedTurn EXCEPT !.outcome = "suggested"]),
                       cloudSearchError)
    /\ UNCHANGED <<activeChatId, editedFiles, isCodeGenerationEnabled, apiError,
                   apiKeySet, nextId, turns, uiOps, suggestionActions, history,
                   container, selectedChunkResult, fusion, stateService, mount>>


(* ---------------------------- intent router --------------------------- *)
\* Faulty variant of Route: an unrecognised intent is answered as chit-chat.
Route_unknownAsChat(intent, opts, attachment, codeGen) ==
    IF intent = "generate_code" /\ codeGen THEN "code"
    ELSE IF intent \in {"chit_chat", "unknown"} /\ ~attachment
    THEN IF opts.useGoogleSearch /\ ~opts.useCloud /\ ~opts.usePreloaded /\ ~opts.useGoogleMaps
         THEN "grounded"
         ELSE "chit_chat"
    ELSE "grounded"
\* Faulty variant of Route: the chit-chat branch does not look at the attachment.
Route_ignoresAttachment(intent, opts, attachment, codeGen) ==
    IF intent = "generate_code" /\ codeGen THEN "code"
    ELSE IF intent = "chit_chat"
    THEN IF opts.useGoogleSearch /\ ~opts.useCloud /\ ~opts.usePreloaded /\ ~opts.useGoogleMaps
         THEN "grounded"
         ELSE "chit_chat"
    ELSE "grounded"
\* the branch handleSendMessage takes once the intent is known
Route(intent, opts, attachment, codeGen) ==
    IF intent = "generate_code" /\ codeGen THEN "code"
    ELSE IF intent = "chit_chat" /\ ~attachment
    THEN IF opts.useGoogleSearch /\ ~opts.useCloud /\ ~opts.usePreloaded /\ ~opts.useGoogleMaps
         THEN "grounded"
         ELSE "chit_chat"
    ELSE "grounded"

Dispatch(cs, t, cse) ==
    LET pipeline == Route(t.intent, t.opts, t.attachment, t.codeGen)
    IN  CASE pipeline = "code" -> StartCodeGeneration(cs, t, cse)
          [] pipeline = "chit_chat" -> StartChitChat(cs, t, cse)
          [] OTHER -> StartQueryDocuments(cs, t, cse)

\* Faulty variant of isGrounded: the maps flag is read negated.
isGrounded_mapsNegated(opts) ==
    opts.useCloud \/ opts.usePreloaded \/ opts.useGoogleSearch \/ ~opts.useGoogleMaps
isGrounded(opts) ==
    opts.useCloud \/ opts.usePreloaded \/ opts.useGoogleSearch \/ opts.useGoogleMaps

\* Faulty variant of SendAborts: a send is accepted while a turn is loading.
SendAborts_ignoresLoading(query, attachment) ==
    (Trim(query) = <<>> /\ ~attachment) \/ ~HasActiveChat
SendAborts(query, attachment) ==
    (Trim(query) = <<>> /\ ~attachment) \/ isLoading \/ ~HasActiveChat

\* handleSendMessage, the early return
handleSendMessageAborted(query, attachment) ==
    /\ SendAborts(query, attachment)
    /\ apiError' = IF ~HasActiveChat
                   THEN Some(<<"Cannot send message: No active chat selected.">>)
                   ELSE apiError
    /\ UNCHANGED <<chats, activeChatId, isLoading, editedFiles, isCodeGenerationEnabled,
                   cloudSearchError, apiKeySet, turn, nextId, turns, uiOps, suggestionActions, history,
                   container, selectedChunkResult, fusion, stateService, mount>>

\* handleSendMessage up to its first await, in a run of at most limit turns
handleSendMessageUpTo(query, attachment, limit) ==
    /\ ~SendAborts(query, attachment)
    /\ turns < limit
    /\ LET userMessage == [ChatMessage("user", query, "none") EXCEPT !.attachment = attachment]
           newTitle == IF Len(activeChat.messages) = 0 /\ Trim(query) # <<>>
                       THEN TitleOf(query) ELSE activeChat.title
           cs1 == updateActiveChat(chats, activeChatId,
                      [chat \in ChatsOf(chats) |-> [chat EXCEPT !.messages = Append(@, userMessage),
                                                 !.title = newTitle]])
           t == [IdleTurn EXCEPT !.chatId = activeChatId,
                                 !.opts = activeChat.groundingOptions,
                                 !.dataset = activeChat.dataset,
                                 !.codeGen = isCodeGenerationEnabled,
                                 !.query = query, !.attachment = attachment]
       IN  IF isGrounded(t.opts) \/ attachment
           THEN IF Trim(query) # <<>>
                THEN Commit(cs1, [t EXCEPT !.pc = "classify", !.classifyCalls = 1],
                            cloudSearchError)
                ELSE Dispatch(cs1, [t EXCEPT !.intent = "query_documents"], cloudSearchError)
           ELSE StartChitChat(cs1, t, cloudSearchError)
    /\ apiError' = None
    /\ turns' = turns + 1
    /\ UNCHANGED <<activeChatId, editedFiles, isCodeGenerationEnabled, apiKeySet,
                   nextId, uiOps, suggestionActions, history, container, selectedChunkResult,
                   fusion, stateService, mount>>

handleSendMessage(query, attachment) == handleSendMessageUpTo(query, attachment, MaxTurns)

\* await classifyIntent(...) returns or throws; then the routing
ClassifyReturn(outcome, reply) ==
    /\ turn.pc = "classify"
    /\ LET result == classifyIntent(apiKeySet, outcome, reply)
           intent == IF IsSome(result.thrown) THEN "query_documents" ELSE result.intent
       IN  /\ Dispatch(chats,
                       [turn EXCEPT !.intent = intent,
                                    !.classifyOutcome =
                                        IF ~apiKeySet THEN "no_key" ELSE outcome],
                       cloudSearchError)
           /\ apiError' = IF IsSome(result.thrown)
                          THEN Some(<<"Intent classification failed: ">> \o Val(result.thrown))
                          ELSE apiError
    /\ UNCHANGED <<activeChatId, editedFiles, isCodeGenerationEnabled, apiKeySet,
                   nextId, turns, uiOps, suggestionActions, history,
                   container, selectedChunkResult, fusion, stateService, mount>>

(* ---------------------------- user handlers --------------------------- *)
\* The awaits of the turn that the network settles; the others resume in a
\* microtask, before any user event.
NetworkAwait ==
    CASE turn.pc \in {"classify", "qd_rewrite", "cc_open", "fb_open", "rag_open", "cg_open"}
            -> apiKeySet
      [] turn.pc \in StreamPcs \cup {"cg_stream"} -> TRUE
      [] turn.pc \in {"qd_search", "cg_search"} -> turn.opts.useCloud
      [] turn.pc = "cg_fetch" -> ~IsLocalFile(turn.dataset, Val(turn.file))
      [] OTHER -> FALSE
UserMayAct == turn.pc = "idle" \/ NetworkAwait

\* updateFileContent of the elasticService module: replace the snippet of
\* the entries of that file
updateFileContent(id, newContent, dataset) ==
    [success |-> IsLocalFile(dataset, id),
     newDataset |-> [i \in 1..Len(dataset) |->
                        IF dataset[i].source.id = id
                        THEN [dataset[i] EXCEPT !.contentSnippet = newContent]
                        ELSE dataset[i]]]
\* ElasticService.updateFileContent
ElasticService_updateFileContent(id, newContent, dataset) ==
    [success |-> FALSE, newDataset |-> dataset]
Services == {"elasticService", "ElasticService"}

\* Faulty variant of FollowUp: the applied edit is announced without its file.
FollowUp_noReference(action, updateSuccess, file) ==
    IF action = "accepted"
    THEN IF updateSuccess
         THEN ChatMessage("model", <<"Applied changes to file:">> \o file.fileName, "none")
         ELSE ChatMessage("model",
                  <<"Failed to apply changes to file:">> \o file.fileName, "Error")
    ELSE ChatMessage("model", <<"Okay, discarded the suggested changes.">>, "none")
\* the follow-up message of handleSuggestionAction; CODE_APPLIED and INFO are
\* no members of ResponseType, so the message carries no response type
FollowUp(action, updateSuccess, file) ==
    IF action = "accepted"
    THEN IF updateSuccess
         THEN [ChatMessage("model", <<"Applied changes to file:">> \o file.fileName,
                           "none") EXCEPT !.editedFile = Some(file.id)]
         ELSE ChatMessage("model",
                  <<"Failed to apply changes to file:">> \o file.fileName, "Error")
    ELSE ChatMessage("model", <<"Okay, discarded the suggested changes.">>, "none")

\* Faulty variant of LedgerEntry: every acceptance captures its own original.
LedgerEntry_overwrite(prev, originalContent, suggestedContent) ==
    [originalContent |-> originalContent, currentContent |-> suggestedContent]
\* the ledger entry an acceptance writes
LedgerEntry(prev, originalContent, suggestedContent) ==
    [originalContent |-> IF IsSome(prev) THEN Val(prev).originalContent ELSE originalContent,
     currentContent |-> suggestedContent]

handleSuggestionAction(messageIndex, action, service) ==
    /\ UserMayAct
    /\ suggestionActions < MaxSuggestionActions
    /\ HasActiveChat
    /\ messageIndex \in 1..Len(activeChat.messages)
    /\ IsSome(activeChat.messages[messageIndex].suggestion)
    /\ LET suggestion == Val(activeChat.messages[messageIndex].suggestion)
           updatedSuggestion == [suggestion EXCEPT !.status = action]
           cs1 == updateActiveChat(chats, activeChatId,
                      [chat \in ChatsOf(chats) |-> [chat EXCEPT !.messages =
                          [i \in 1..Len(chat.messages) |->
                              IF i = messageIndex
                              THEN [chat.messages[i] EXCEPT
                                        !.suggestion = Some(updatedSuggestion)]
                              ELSE chat.messages[i]]]])
           file == suggestion.file
           currentDataset == activeChat.dataset
           isLocal == IsLocalFile(currentDataset, file.id)
           update == IF service = "elasticService"
                     THEN updateFileContent(file.id, suggestion.suggestedContent, currentDataset)
                     ELSE ElasticService_updateFileContent(file.id,
                              suggestion.suggestedContent, currentDataset)
           updateSuccess == IF isLocal THEN update.success ELSE TRUE
           cs2 == IF action = "accepted" /\ isLocal /\ update.success
                  THEN updateActiveChat(cs1, activeChatId,
                           [c \in ChatsOf(cs1) |-> [c EXCEPT !.dataset = update.newDataset]])
                  ELSE cs1
           followUp == FollowUp(action, updateSuccess, file)
           applied == action = "accepted" /\ updateSuccess
       IN  /\ chats' = addMessageToActiveChat(cs2, activeChatId, followUp)
           /\ editedFiles' =
                 IF applied
                 THEN [editedFiles EXCEPT ![file.id] =
                          Some(LedgerEntry(@, suggestion.originalContent,
                                           suggestion.suggestedContent))]
                 ELSE editedFiles
           /\ history' =
                 [first |-> IF applied /\ ~IsSome(history.first[file.id])
                            THEN [history.first EXCEPT
                                     ![file.id] = Some(suggestion.originalContent)]
                            ELSE history.first,
                  sinceClear |-> IF applied /\ ~IsSome(history.sinceClear[file.id])
                                 THEN [history.sinceClear EXCEPT
                                          ![file.id] = Some(suggestion.originalContent)]
                                 ELSE history.sinceClear,
                  applied |-> IF applied
                              THEN [history.applied EXCEPT
                                       ![file.id] = Some(suggestion.suggestedContent)]
                              ELSE history.applied,
                  last |-> [action |-> action, messageIndex |-> messageIndex,
                            file |-> file.id, isLocal |-> isLocal,
                            success |-> update.success]]
    /\ suggestionActions' = suggestionActions + 1
    /\ UNCHANGED <<activeChatId, isLoading, isCodeGenerationEnabled, apiError,
                   cloudSearchError, apiKeySet, turn, nextId, turns, uiOps,
                   container, selectedChunkResult, fusion, stateService, mount>>

handleNewChat ==
    /\ UserMayAct
    /\ Len(chats) < MaxChats
    /\ chats' = SortByCreatedAt(<<NewChat(nextId)>> \o chats)
    /\ activeChatId' = nextId
    /\ editedFiles' = [f \in FileIds |-> None]
    /\ cloudSearchError' = None
    /\ isCodeGenerationEnabled' = FALSE
    /\ nextId' = nextId + 1
    /\ history' = [history EXCEPT !.sinceClear = [f \in FileIds |-> None],
                                  !.applied = [f \in FileIds |-> None]]
    /\ UNCHANGED <<isLoading, apiError, apiKeySet, turn, turns, uiOps, suggestionActions,
                   fusion, stateService, mount>>
    /\ container' = <<>>
    /\ selectedChunkResult' = None

onSelectChat(id) ==
    /\ UserMayAct
    /\ uiOps < MaxUiOps
    /\ id # activeChatId
    /\ activeChatId' = id
    /\ uiOps' = uiOps + 1
    /\ UNCHANGED <<chats, isLoading, editedFiles, isCodeGenerationEnabled, apiError,
                   cloudSearchError, apiKeySet, turn, nextId, turns, suggestionActions, history,
                   fusion, stateService, mount>>
    /\ container' = <<>>
    /\ selectedChunkResult' = None

handleGroundingOptionsChange(options) ==
    /\ UserMayAct
    /\ uiOps < MaxUiOps
    /\ chats' = updateActiveChat(chats, activeChatId,
                    [chat \in ChatsOf(chats) |-> [chat EXCEPT !.groundingOptions = options]])
    /\ uiOps' = uiOps + 1
    /\ UNCHANGED <<activeChatId, isLoading, editedFiles, isCodeGenerationEnabled, apiError,
                   cloudSearchError, apiKeySet, turn, nextId, turns, suggestionActions, history,
                   container, selectedChunkResult, fusion, stateService, mount>>

handleToggleCodeGeneration ==
    /\ UserMayAct
    /\ uiOps < MaxUiOps
    /\ isCodeGenerationEnabled' = ~isCodeGenerationEnabled
    /\ uiOps' = uiOps + 1
    /\ UNCHANGED <<chats, activeChatId, isLoading, editedFiles, apiError,
                   cloudSearchError, apiKeySet, turn, nextId, turns, suggestionActions, history,
                   container, selectedChunkResult, fusion, stateService, mount>>

(* --------------------------- specification ---------------------------- *)
\* Sessions under user interleaving: one kind of question, the answers of
\* the services that lead into each pipeline.
Queries == {<<"e", "d", "i", "t">>}
ConfigChoices == {GroundingOptions(FALSE, FALSE, FALSE, FALSE),
                  GroundingOptions(FALSE, TRUE, FALSE, FALSE)}
Replies == {"generate_code", "chit_chat", "query_documents"}
Chunks == {Chunk(Some(<<"x">>), NoMeta)}
CodeResponses ==
    {Unparseable,
     ResponseObject(None, Some(ContextPath(Source("f1"))), Some(<<"t">>), Some(<<"v2">>))}
Fetches == CloudContents \cup FetchErrors

\* the messages rendered, each with its index
MessageIndexes == IF HasActiveChat THEN 1..Len(activeChat.messages) ELSE {}

UserAction ==
    \/ \E query \in Queries : handleSendMessage(query, FALSE)
    \/ \E query \in Queries : handleSendMessageAborted(query, FALSE)
    \/ \E i \in MessageIndexes, action \in {"accepted", "rejected"}, service \in Services :
            handleSuggestionAction(i, action, service)
    \/ handleNewChat
    \/ \E i \in 1..Len(chats) : onSelectChat(chats[i].id)
    \/ \E options \in ConfigChoices : handleGroundingOptionsChange(options)
    \/ handleToggleCodeGeneration

TurnStep ==
    \/ \E reply \in Replies : ClassifyReturn("ok", reply)
    \/ \E outcome \in {"ok", "other"} : ChitChatOpen(outcome)
    \/ \E reply \in RewriteReplies : RewriteReturn("ok", reply)
    \/ \E matches \in BOOLEAN : SearchReturn(FALSE, <<>>, matches)
    \/ \E outcome \in {"ok", "other"} : GroundedOpen(outcome)
    \/ \E chunk \in Chunks : StreamChunk(chunk)
    \/ StreamEnd
    \/ StreamFail(SdkOtherError)
    \/ \E matches \in BOOLEAN : CodeSearchReturn(FALSE, <<>>, matches)
    \/ \E outcome \in {"ok", "other"} : CodeOpen(outcome)
    \/ CodeStreamFail(SdkOtherError)
    \/ \E responseObject \in CodeResponses : CodeStreamDone(responseObject, FALSE)
    \/ \E fetched \in Fetches : CodeFetchReturn(fetched)

Next == UserAction \/ TurnStep

Spec == Init /\ [][Next]_vars

\* Repeated sends: the user submits again and again, with text or without,
\* while turns start, run and end.
SendQueries == {<<" ">>, <<"e", "d", "i", "t">>}
SendNext ==
    \/ \E query \in SendQueries, attachment \in BOOLEAN :
            handleSendMessageUpTo(query, attachment, MaxSends)
    \/ \E query \in SendQueries, attachment \in BOOLEAN :
            handleSendMessageAborted(query, attachment)
    \/ handleToggleCodeGeneration
    \/ TurnStep

SendSpec == Init /\ [][SendNext]_vars


\* One turn through the pipelines, from a session restored under any
\* grounding configuration, with every answer the services can give.
PipelineInit ==
    /\ \E saved \in ConfiguredSnapshots, key \in BOOLEAN : Started(saved, key)
    /\ fusion = NoFusion
    /\ stateService = NewStateService

PipelineQueries == {<<" ">>, <<" ", "h", "i", " ", " ">>, <<"e", "d", "i", "t">>}
PipelineChunks ==
    {Chunk(Some(<<"x">>), NoMeta),
     Chunk(None, [NoMeta EXCEPT !.groundingAttributions =
                      Some(<<Attribution(None, Some("u1"), None)>>)])}
PipelineCodeResponses ==
    CodeResponses \cup
    {ResponseObject(Some(<<"ambiguous request">>), None, None, None),
     ResponseObject(None, Some(ContextPath(Source("f2"))), Some(<<"t">>), Some(<<"v2">>)),
     ResponseObject(None, Some(ContextPath(Source("f3"))), Some(<<"t">>), Some(<<"v2">>)),
     ResponseObject(None, Some(ContextPath(Source("f1"))), Some(<<"t">>), None),
     ResponseObject(None, Some(ContextPath(Source("f1"))), Some(<<"t">>), Some(<<>>)),
     ResponseObject(Some(<<>>), None, None, None),
     ResponseObject(Some(<<>>), Some(ContextPath(Source("f1"))), Some(<<"t">>),
                    Some(<<"v2">>))}

PipelineNext ==
    \/ \E query \in PipelineQueries, attachment \in BOOLEAN :
            handleSendMessage(query, attachment)
    \/ \E query \in PipelineQueries, attachment \in BOOLEAN :
            handleSendMessageAborted(query, attachment)
    \/ handleToggleCodeGeneration
    \/ \E outcome \in CallOutcomes, reply \in ClassifyReplies : ClassifyReturn(outcome, reply)
    \/ \E outcome \in CallOutcomes : ChitChatOpen(outcome)
    \/ \E outcome \in CallOutcomes, reply \in RewriteReplies : RewriteReturn(outcome, reply)
    \/ \E cloudFailed \in BOOLEAN, cloudAnswer \in CloudAnswers, matches \in BOOLEAN :
            SearchReturn(cloudFailed, cloudAnswer, matches)
    \/ \E outcome \in CallOutcomes : GroundedOpen(outcome)
    \/ \E chunk \in PipelineChunks : StreamChunk(chunk)
    \/ StreamEnd
    \/ \E error \in SdkErrors : StreamFail(error)
    \/ \E cloudFailed \in BOOLEAN, cloudAnswer \in CloudAnswers, matches \in BOOLEAN :
            CodeSearchReturn(cloudFailed, cloudAnswer, matches)
    \/ \E outcome \in CallOutcomes : CodeOpen(outcome)
    \/ \E error \in SdkErrors : CodeStreamFail(error)
    \/ \E responseObject \in PipelineCodeResponses, cloudListed \in BOOLEAN :
            CodeStreamDone(responseObject, cloudListed)
    \/ \E fetched \in Fetches : CodeFetchReturn(fetched)

PipelineSpec == PipelineInit /\ [][PipelineNext]_vars

\* One turn whose awaits all settle: each external call returns or fails, a
\* stream delivers a fragment, ends or fails.
LiveCloudAnswers ==
    {<<>>, <<ElasticResult("f2", <<"c2">>, 9), ElasticResult("f3", <<"c3">>, 5)>>}
LiveCodeResponses ==
    CodeResponses \cup
    {ResponseObject(Some(<<"ambiguous request">>), None, None, None),
     ResponseObject(None, Some(ContextPath(Source("f3"))), Some(<<"t">>), Some(<<"v2">>))}
LiveTurnStep ==
    \/ \E outcome \in CallOutcomes, reply \in ClassifyReplies : ClassifyReturn(outcome, reply)
    \/ \E outcome \in CallOutcomes : ChitChatOpen(outcome)
    \/ \E outcome \in CallOutcomes, reply \in RewriteReplies : RewriteReturn(outcome, reply)
    \/ \E cloudFailed \in BOOLEAN, cloudAnswer \in LiveCloudAnswers, matches \in BOOLEAN :
            SearchReturn(cloudFailed, cloudAnswer, matches)
    \/ \E outcome \in CallOutcomes : GroundedOpen(outcome)
    \/ \E chunk \in Chunks : StreamChunk(chunk)
    \/ StreamEnd
    \/ \E error \in SdkErrors : StreamFail(error)
    \/ \E cloudFailed \in BOOLEAN, cloudAnswer \in LiveCloudAnswers, matches \in BOOLEAN :
            CodeSearchReturn(cloudFailed, cloudAnswer, matches)
    \/ \E outcome \in CallOutcomes : CodeOpen(outcome)
    \/ \E error \in SdkErrors : CodeStreamFail(error)
    \/ \E responseObject \in LiveCodeResponses, cloudListed \in BOOLEAN :
            CodeStreamDone(responseObject, cloudListed)
    \/ \E fetched \in Fetches : CodeFetchReturn(fetched)

LiveNext ==
    \/ \E attachment \in BOOLEAN : handleSendMessage(<<"e", "d", "i", "t">>, attachment)
    \/ \E attachment \in BOOLEAN : handleSendMessageAborted(<<"e", "d", "i", "t">>, attachment)
    \/ handleToggleCodeGeneration
    \/ LiveTurnStep

LiveSpec == PipelineInit /\ [][LiveNext]_vars /\ WF_vars(LiveTurnStep)


(* ----------------------------- citations ------------------------------ *)
\* Text here is a sequence of characters. A node of the rendered content is
\* a text node or a button; a button carries the 0-based index its listener
\* passes to onCitationClick and the source its title was read from.
TextNode(text) == [kind |-> "text", text |-> text, index |-> 0, source |-> None]
Button(text, index, source) ==
    [kind |-> "button", text |-> text, index |-> index, source |-> source]

\* elasticSources[index] of JavaScript: undefined outside the list
At(elasticSources, index) ==
    IF index >= 0 /\ index < Len(elasticSources)
    THEN Some(elasticSources[index + 1]) ELSE None

Digits == {"0", "1", "2", "3", "4", "5", "6", "7", "8", "9"}
DigitValue(c) ==
    CASE c = "0" -> 0 [] c = "1" -> 1 [] c = "2" -> 2 [] c = "3" -> 3 [] c = "4" -> 4
      [] c = "5" -> 5 [] c = "6" -> 6 [] c = "7" -> 7 [] c = "8" -> 8 [] OTHER -> 9

\* parseInt(numStr, 10) of a string of digits
RECURSIVE parseInt(_)
parseInt(numStr) ==
    IF numStr = <<>> THEN 0
    ELSE parseInt(SubSeq(numStr, 1, Len(numStr) - 1)) * 10 + DigitValue(numStr[Len(numStr)])

\* \d+ of the citation pattern: the digits that follow position i
RECURSIVE DigitRun(_, _)
DigitRun(textContent, i) ==
    IF i <= Len(textContent) /\ textContent[i] \in Digits
    THEN 1 + DigitRun(textContent, i + 1) ELSE 0

\* /\[(\d+)\]/ at position i: the length of the match, 0 if there is none
citationRegex(textContent, i) ==
    LET digits == DigitRun(textContent, i + 1)
    IN  IF /\ textContent[i] = "["
           /\ digits > 0
           /\ i + digits + 1 <= Len(textContent)
           /\ textContent[i + digits + 1] = "]"
        THEN digits + 2 ELSE 0

\* Faulty variant of IsValidCitation: the number 0 is taken for a citation.
IsValidCitation_fromZero(citationNum, index, elasticSources) ==
    citationNum >= 0 /\ index < Len(elasticSources)
\* citationNum > 0 && index < elasticSources.length
IsValidCitation(citationNum, index, elasticSources) ==
    citationNum > 0 /\ index < Len(elasticSources)

\* The while loop over citationRegex.exec(textContent): the nodes appended
\* to the fragment from position i on, with the text since lastIndex pending.
RECURSIVE Fragment(_, _, _, _)
Fragment(textContent, i, lastIndex, elasticSources) ==
    IF i > Len(textContent)
    THEN IF lastIndex <= Len(textContent)
         THEN <<TextNode(SubSeq(textContent, lastIndex, Len(textContent)))>>
         ELSE <<>>
    ELSE LET length == citationRegex(textContent, i)
         IN  IF length = 0 THEN Fragment(textContent, i + 1, lastIndex, elasticSources)
             ELSE LET fullMatch == SubSeq(textContent, i, i + length - 1)
                      numStr == SubSeq(textContent, i + 1, i + length - 2)
                      citationNum == parseInt(numStr)
                      index == citationNum - 1
                      preceding == IF i > lastIndex
                                   THEN <<TextNode(SubSeq(textContent, lastIndex, i - 1))>>
                                   ELSE <<>>
                      node == IF IsValidCitation(citationNum, index, elasticSources)
                              THEN Button(fullMatch, index, At(elasticSources, index))
                              ELSE TextNode(fullMatch)
                  IN  preceding \o <<node>>
                        \o Fragment(textContent, i + length, i + length, elasticSources)

\* The effect of MarkdownRenderer on a text without markup: one text node,
\* replaced by the fragment if sources are given and a button was created.
MarkdownRenderer(text, elasticSources) ==
    LET fragment == Fragment(text, 1, 1, Val(elasticSources))
        replaced == \E n \in 1..Len(fragment) : fragment[n].kind = "button"
    IN  IF IsSome(elasticSources) /\ Len(Val(elasticSources)) > 0 /\ replaced
        THEN fragment
        ELSE <<TextNode(text)>>

\* the message whose content is rendered: the last one of the active session
MessageInView == activeChat.messages[Len(activeChat.messages)]

\* Message.tsx renders the content of a message that has content
RenderMessage ==
    /\ HasActiveChat
    /\ container = <<>>
    /\ MessageInView.content # <<>>
    /\ container' = MarkdownRenderer(MessageInView.content, MessageInView.elasticSources)
    /\ UNCHANGED <<chats, activeChatId, isLoading, editedFiles, isCodeGenerationEnabled,
                   apiError, cloudSearchError, apiKeySet, turn, nextId, turns, uiOps,
                   suggestionActions, history, selectedChunkResult, fusion, stateService,
                   mount>>

\* a click on the button at position n: its listener calls
\* handleCitationClick(index), which opens the chunk viewer on the source
handleCitationClick(n) ==
    /\ container[n].kind = "button"
    /\ LET index == container[n].index
           result == IF IsSome(MessageInView.elasticSources)
                     THEN At(Val(MessageInView.elasticSources), index) ELSE None
       IN  selectedChunkResult' = IF IsSome(result) THEN result ELSE selectedChunkResult
    /\ UNCHANGED <<chats, activeChatId, isLoading, editedFiles, isCodeGenerationEnabled,
                   apiError, cloudSearchError, apiKeySet, turn, nextId, turns, uiOps,
                   suggestionActions, history, container, fusion, stateService, mount>>

handleCloseChunkViewer ==
    /\ IsSome(selectedChunkResult)
    /\ selectedChunkResult' = None
    /\ UNCHANGED <<chats, activeChatId, isLoading, editedFiles, isCodeGenerationEnabled,
                   apiError, cloudSearchError, apiKeySet, turn, nextId, turns, uiOps,
                   suggestionActions, history, container, fusion, stateService, mount>>

\* Contents made of up to MaxSegments pieces, and the source lists of up to
\* MaxSources results a message may carry (none at all included).
Segments ==
    {<<"x">>, <<"[">>, <<"]">>, <<"[", "0", "]">>, <<"[", "1", "]">>, <<"[", "2", "]">>,
     <<"[", "3", "]">>, <<"[", "1", "2", "]">>, <<"[", "0", "1", "]">>}
RECURSIVE CitationTexts(_)
CitationTexts(segments) ==
    IF segments = 0 THEN {}
    ELSE Segments \cup CitationTexts(segments - 1)
            \cup {text \o segment : text \in CitationTexts(segments - 1), segment \in Segments}
CitedResult(n) ==
    CASE n = 1 -> ElasticResult("f1", <<"v0">>, 3)
      [] n = 2 -> ElasticResult("f2", <<"c0">>, 2)
      [] OTHER -> ElasticResult("f3", <<"c0">>, 1)
CitationSources ==
    {None} \cup {Some([n \in 1..length |-> CitedResult(n)]) : length \in 0..MaxSources}

CitationSnapshot(text, elasticSources) ==
    Some([chats |-> <<[SavedChat EXCEPT !.messages =
                          <<[ChatMessage("user", <<"h", "i">>, "none") EXCEPT
                                !.elasticSources = None],
                            [ChatMessage("model", text, "Grounded Answer") EXCEPT
                                !.elasticSources = elasticSources,
                                !.groundingChunks = Some(<<>>)]>>]>>,
          activeChatId |-> 1])

CitationInit ==
    /\ \E text \in CitationTexts(MaxSegments), elasticSources \in CitationSources :
            Started(CitationSnapshot(text, elasticSources), TRUE)
    /\ fusion = NoFusion
    /\ stateService = NewStateService

CitationNext ==
    \/ RenderMessage
    \/ \E n \in 1..Len(container) : handleCitationClick(n)
    \/ handleCloseChunkViewer

CitationSpec == CitationInit /\ [][CitationNext]_vars


(* ---------------------------- StateService ---------------------------- *)
\* The session store of the Angular front end. service.chats is _chats$,
\* service.activeChatId is _activeChatId$ (NullId is null); now is the
\* Date.now() of the next session, last the method called last (history).
\* Faulty variant of addChat: the session is put at the end of the list.
addChat_atEnd(service, chat) ==
    [service EXCEPT !.chats = Append(service.chats, chat), !.activeChatId = chat.id]
addChat(service, chat) ==
    [service EXCEPT !.chats = <<chat>> \o service.chats, !.activeChatId = chat.id]

setActiveChatId(service, chatId) == [service EXCEPT !.activeChatId = chatId]

addMessage(service, message) ==
    LET activeId == service.activeChatId
    IN  IF activeId = NullId THEN service
        ELSE [service EXCEPT !.chats =
                [i \in 1..Len(service.chats) |->
                    IF service.chats[i].id = activeId
                    THEN [service.chats[i] EXCEPT !.messages = Append(@, message)]
                    ELSE service.chats[i]]]

\* Faulty variant of updateLastMessage: the message is pushed when the log
\* is empty.
updateLastMessage_pushesWhenEmpty(service, message) ==
    LET activeId == service.activeChatId
    IN  IF activeId = NullId THEN service
        ELSE [service EXCEPT !.chats =
                [i \in 1..Len(service.chats) |->
                    IF service.chats[i].id = activeId
                    THEN [service.chats[i] EXCEPT !.messages =
                            IF Len(@) = 0 THEN <<message>>
                            ELSE [@ EXCEPT ![Len(@)] = message]]
                    ELSE service.chats[i]]]
\* messages[messages.length - 1] = message: on an empty array the index is
\* -1, which adds no element
updateLastMessage(service, message) ==
    LET activeId == service.activeChatId
    IN  IF activeId = NullId THEN service
        ELSE [service EXCEPT !.chats =
                [i \in 1..Len(service.chats) |->
                    IF service.chats[i].id = activeId
                    THEN [service.chats[i] EXCEPT !.messages =
                            IF Len(@) = 0 THEN @
                            ELSE [@ EXCEPT ![Len(@)] = message]]
                    ELSE service.chats[i]]]

\* Faulty variant of deleteChat: the active id is left as it is.
deleteChat_keepsActiveId(service, chatId) ==
    [service EXCEPT !.chats = SelectSeq(service.chats, LAMBDA chat : chat.id # chatId)]
deleteChat(service, chatId) ==
    LET remaining == SelectSeq(service.chats, LAMBDA chat : chat.id # chatId)
    IN  [service EXCEPT
            !.chats = remaining,
            !.activeChatId =
                IF service.activeChatId = chatId
                THEN (IF Len(remaining) > 0 THEN remaining[1].id ELSE NullId)
                ELSE service.activeChatId]

\* what the method called did to the service, with the call logged
Called(service, op, chatId) ==
    [service EXCEPT !.last = [op |-> op, chatId |-> chatId]]

\* app.ts newChat(): a session with every grounding option off
newChat ==
    /\ Len(stateService.chats) < MaxServiceChats
    /\ stateService.now <= MaxServiceChats + 1
    /\ LET chat == [NewChat(stateService.now) EXCEPT
                        !.groundingOptions = GroundingOptions(FALSE, FALSE, FALSE, FALSE)]
       IN  stateService' = [Called(addChat(stateService, chat), "addChat", chat.id)
                                EXCEPT !.now = @ + 1]
    /\ UNCHANGED <<chats, activeChatId, isLoading, editedFiles, isCodeGenerationEnabled,
                   apiError, cloudSearchError, apiKeySet, turn, nextId, turns, uiOps,
                   suggestionActions, history, container, selectedChunkResult, fusion, mount>>

\* chat-history.ts onSelectChat(id)
ChatHistory_onSelectChat(id) ==
    /\ \E i \in 1..Len(stateService.chats) : stateService.chats[i].id = id
    /\ id # stateService.activeChatId
    /\ stateService' = Called(setActiveChatId(stateService, id), "setActiveChatId", id)
    /\ UNCHANGED <<chats, activeChatId, isLoading, editedFiles, isCodeGenerationEnabled,
                   apiError, cloudSearchError, apiKeySet, turn, nextId, turns, uiOps,
                   suggestionActions, history, container, selectedChunkResult, fusion, mount>>

\* chat-history.ts onDeleteChat(event, chatId)
ChatHistory_onDeleteChat(chatId) ==
    /\ \E i \in 1..Len(stateService.chats) : stateService.chats[i].id = chatId
    /\ stateService' = Called(deleteChat(stateService, chatId), "deleteChat", chatId)
    /\ UNCHANGED <<chats, activeChatId, isLoading, editedFiles, isCodeGenerationEnabled,
                   apiError, cloudSearchError, apiKeySet, turn, nextId, turns, uiOps,
                   suggestionActions, history, container, selectedChunkResult, fusion, mount>>

\* welcome-block.ts onSendMessage: the calls of addMessage and of
\* updateLastMessage, whatever the active session is by then
ServiceMessages ==
    {ChatMessage("user", <<"h", "i">>, "Grounded Answer"),
     ChatMessage("model", <<>>, "Grounded Answer"),
     ChatMessage("model", <<"x">>, "Grounded Answer")}
ServiceMayAppend ==
    \A i \in 1..Len(stateService.chats) : Len(stateService.chats[i].messages) < MaxMessages
WelcomeBlock_addMessage(message) ==
    /\ ServiceMayAppend
    /\ stateService' = Called(addMessage(stateService, message), "addMessage",
                              stateService.activeChatId)
    /\ UNCHANGED <<chats, activeChatId, isLoading, editedFiles, isCodeGenerationEnabled,
                   apiError, cloudSearchError, apiKeySet, turn, nextId, turns, uiOps,
                   suggestionActions, history, container, selectedChunkResult, fusion, mount>>

WelcomeBlock_updateLastMessage(message) ==
    /\ stateService' = Called(updateLastMessage(stateService, message), "updateLastMessage",
                              stateService.activeChatId)
    /\ UNCHANGED <<chats, activeChatId, isLoading, editedFiles, isCodeGenerationEnabled,
                   apiError, cloudSearchError, apiKeySet, turn, nextId, turns, uiOps,
                   suggestionActions, history, container, selectedChunkResult, fusion, mount>>

\* The two session stores side by side: the one of App.tsx (create, switch)
\* and the StateService (create, switch, delete, append, replace the tail).
StoreInit ==
    /\ \E saved \in Snapshots : Started(saved, TRUE)
    /\ fusion = NoFusion
    /\ stateService = NewStateService

StoreNext ==
    \/ handleNewChat
    \/ \E i \in 1..Len(chats) : onSelectChat(chats[i].id)
    \/ newChat
    \/ \E id \in 1..MaxServiceChats + 1 : ChatHistory_onSelectChat(id)
    \/ \E chatId \in 1..MaxServiceChats + 1 : ChatHistory_onDeleteChat(chatId)
    \/ \E message \in ServiceMessages : WelcomeBlock_addMessage(message)
    \/ \E message \in ServiceMessages : WelcomeBlock_updateLastMessage(message)

StoreSpec == StoreInit /\ [][StoreNext]_vars


(* ------------------------------- fusion ------------------------------- *)
\* The fusion on its own: ranked lists of up to MaxRank results each, in
\* which a file may occur more than once and with different snippets and
\* relevances, fused in the order given and in a permuted order.
FusionResults ==
    {ElasticResult("f1", <<"a">>, 1), ElasticResult("f1", <<"b">>, 2),
     ElasticResult("f2", <<"a">>, 1), ElasticResult("f2", <<"b">>, 1),
     ElasticResult("f3", <<"a">>, 1)}
RankedLists == UNION {[1..length -> FusionResults] : length \in 0..MaxRank}
ListOrders(n) == {order \in [1..n -> 1..n] : \A i, j \in 1..n : order[i] = order[j] => i = j}
Permuted(lists, order) == [i \in 1..Len(lists) |-> lists[order[i]]]

FusionInit ==
    /\ Started(None, TRUE)
    /\ \E n \in 1..MaxLists :
          \E lists \in [1..n -> RankedLists], order \in ListOrders(n) :
              fusion = [NoFusion EXCEPT !.lists = lists, !.order = order]
    /\ stateService = NewStateService

\* const fusedResults = reciprocalRankFusion(searchResultsArrays), sliced
Fuse ==
    /\ fusion.fused = None
    /\ fusion' = [fusion EXCEPT !.fused = Some(FuseTopK(fusion.lists))]
    /\ UNCHANGED <<chats, activeChatId, isLoading, editedFiles, isCodeGenerationEnabled,
                   apiError, cloudSearchError, apiKeySet, turn, nextId, turns, uiOps,
                   suggestionActions, history, container, selectedChunkResult,
                   stateService, mount>>

\* the same call with the lists in the permuted order
FusePermuted ==
    /\ fusion.fusedPermuted = None
    /\ fusion' = [fusion EXCEPT
                    !.fusedPermuted = Some(FuseTopK(Permuted(fusion.lists, fusion.order)))]
    /\ UNCHANGED <<chats, activeChatId, isLoading, editedFiles, isCodeGenerationEnabled,
                   apiError, cloudSearchError, apiKeySet, turn, nextId, turns, uiOps,
                   suggestionActions, history, container, selectedChunkResult,
                   stateService, mount>>

FusionNext == Fuse \/ FusePermuted

FusionSpec == FusionInit /\ [][FusionNext]_vars


(* ------------------------------ restore ------------------------------ *)
\* The load effect on items of every shape: no item, one that does not
\* parse, and objects whose sessions lack messages, dataset or (part of)
\* the grounding configuration, with an active id that is absent, names a
\* saved session or names none.
EmptyObject == [f \in {} |-> TRUE]
Merge(object, fields) ==
    [f \in DOMAIN object \cup DOMAIN fields |->
        IF f \in DOMAIN fields THEN fields[f] ELSE object[f]]

SavedUser == ChatMessage("user", <<"h", "i">>, "none")
SavedAnswer ==
    [ChatMessage("model", <<"x">>, "Grounded Answer") EXCEPT
        !.elasticSources = Some(<<ElasticResult("f1", <<"v0">>, 1)>>),
        !.groundingChunks = Some(<<GroundingChunk(Attribution(None, Some("u1"), None))>>)]
SavedOldAnswer ==
    [ChatMessage("model", <<"y">>, "Chit-Chat") EXCEPT !.elasticSources = Some(<<>>)]
SavedLogs == {<<>>, <<SavedUser, SavedAnswer>>, <<SavedUser, SavedOldAnswer>>}
SavedOptions ==
    {EmptyObject, [useCloud |-> FALSE],
     [usePreloaded |-> TRUE, useGoogleSearch |-> TRUE],
     GroundingOptions(FALSE, TRUE, FALSE, TRUE)}
SavedSessions(id) ==
    LET session == [id |-> id, title |-> <<"t">>, createdAt |-> id, dataSource |-> None]
    IN  {Merge(Merge(Merge(session, messages), dataset), options) :
            messages \in {EmptyObject} \cup {[messages |-> log] : log \in SavedLogs},
            dataset \in {EmptyObject, [dataset |-> <<ElasticResult("f1", <<"v0">>, 1),
                                                     ElasticResult("f4", <<"w0">>, 1)>>]},
            options \in {EmptyObject} \cup {[groundingOptions |-> o] : o \in SavedOptions}}
SavedSecond ==
    [id |-> 2, title |-> <<"t">>, createdAt |-> 2, dataSource |-> None,
     messages |-> <<SavedUser, SavedOldAnswer>>]
SavedChatLists ==
    {<<>>} \cup {<<chat>> : chat \in SavedSessions(1)}
           \cup {<<chat, SavedSecond>> : chat \in SavedSessions(1)}
           \cup {<<SavedSecond, chat>> : chat \in SavedSessions(1)}
SavedStates ==
    {None, Some(Corrupt), Some(EmptyObject)}
    \cup {Some([chats |-> savedChats]) : savedChats \in SavedChatLists}
    \cup {Some([chats |-> savedChats, activeChatId |-> id]) :
            savedChats \in SavedChatLists, id \in {1, 2, 7}}

\* the state of the first render, before the load effect runs
RestoreInit ==
    /\ \E saved \in SavedStates : mount = [savedState |-> saved, done |-> FALSE]
    /\ chats = <<>>
    /\ activeChatId = NullId
    /\ isLoading = FALSE
    /\ editedFiles = [f \in FileIds |-> None]
    /\ isCodeGenerationEnabled = FALSE
    /\ apiError = None
    /\ cloudSearchError = None
    /\ apiKeySet = TRUE
    /\ turn = IdleTurn
    /\ nextId = 3
    /\ turns = 0
    /\ uiOps = 0
    /\ suggestionActions = 0
    /\ history = NoHistory
    /\ container = <<>>
    /\ selectedChunkResult = None
    /\ fusion = NoFusion
    /\ stateService = NewStateService

LoadEffect ==
    /\ ~mount.done
    /\ chats' = LoadState(mount.savedState).chats
    /\ activeChatId' = LoadState(mount.savedState).activeChatId
    /\ mount' = [mount EXCEPT !.done = TRUE]
    /\ UNCHANGED <<isLoading, editedFiles, isCodeGenerationEnabled, apiError,
                   cloudSearchError, apiKeySet, turn, nextId, turns, uiOps,
                   suggestionActions, history, container, selectedChunkResult, fusion,
                   stateService>>

RestoreNext ==
    \/ LoadEffect
    \/ mount.done /\ handleNewChat
    \/ mount.done /\ \E i \in 1..Len(chats) : onSelectChat(chats[i].id)
RestoreSpec == RestoreInit /\ [][RestoreNext]_vars

(* ---------------------------- attributions --------------------------- *)
\* The fallback stream on fragments of every metadata shape. An entry holds
\* its uri in one place: directly (citationSources), under web or under
\* maps (grounding chunks); NoUri holds none. A fragment lists entries under
\* groundingMetadata.groundingAttributions, under citationMetadata
\* .citationSources, under both or under neither, with or without
\* webSearchQueries.
NoUri == Attribution(None, None, None)
AttributionMetas ==
    {[groundingAttributions |-> preferred, webSearchQueries |-> queries,
      citationSources |-> older] :
        preferred \in {None, Some(<<>>),
                       Some(<<Attribution(None, Some("u1"), None)>>),
                       Some(<<Attribution(None, None, Some("u1"))>>),
                       Some(<<Attribution(None, Some("u2"), None)>>),
                       Some(<<Attribution(None, Some("u1"), None),
                              Attribution(None, None, Some("u1"))>>),
                       Some(<<NoUri, Attribution(Some("u1"), None, None)>>)},
        queries \in {0, 1},
        older \in {None, Some(<<>>),
                   Some(<<Attribution(Some("u1"), None, None)>>),
                   Some(<<Attribution(Some("u2"), None, None),
                          Attribution(Some("u1"), None, None)>>)}}
AttributionChunks == {Chunk(Some(<<"x">>), meta) : meta \in AttributionMetas}

\* a session without index, with web search or maps enabled
AttributionInit ==
    /\ \E opts \in {GroundingOptions(FALSE, FALSE, TRUE, FALSE),
                    GroundingOptions(FALSE, FALSE, FALSE, TRUE)} :
            Started(Some([chats |-> <<[SavedChat EXCEPT !.groundingOptions = opts,
                                                       !.dataSource = None,
                                                       !.dataset = <<>>]>>,
                          activeChatId |-> 1]), TRUE)
    /\ fusion = NoFusion
    /\ stateService = NewStateService

AttributionNext ==
    \/ handleSendMessage(<<"e", "d", "i", "t">>, FALSE)
    \/ ClassifyReturn("ok", "query_documents")
    \/ \E reply \in RewriteReplies : RewriteReturn("ok", reply)
    \/ GroundedOpen("ok")
    \/ \E chunk \in AttributionChunks : StreamChunk(chunk)
    \/ StreamEnd
    \/ StreamFail(SdkOtherError)
AttributionSpec == AttributionInit /\ [][AttributionNext]_vars

(* ------------------------------ properties ---------------------------- *)
\* C1: while a generator stream is in progress, the streaming message (the
\* placeholder the turn appended) is the last element of its session's log.
C1_StreamingMessageIsLast ==
    turn.pc \in StreamPcs => turn.tailIdx = Len(ChatById(chats, turn.chatId).messages)

\* C2 as stated: in every step the log of every session keeps or grows its
\* length and every message that is not its last element stays as it is.
C2_OnlyTailReplaced ==
    [][\A c \in 1..Len(chats) :
          LET m == chats[c].messages
              n == ChatById(chats', chats[c].id).messages
          IN  /\ Len(n) >= Len(m)
              /\ \A i \in 1..(Len(m) - 1) : n[i] = m[i]]_vars

\* C2: in every step the log of every session keeps or grows its length, and
\* a message that is not its last element stays as it is except for the
\* status of the suggestion it carries, which an accept or reject sets.
C2_OnlyTailReplacedOrStatusSet ==
    [][\A c \in 1..Len(chats) :
          LET m == chats[c].messages
              n == ChatById(chats', chats[c].id).messages
          IN  /\ Len(n) >= Len(m)
              /\ \A i \in 1..(Len(m) - 1) :
                    \/ n[i] = m[i]
                    \/ /\ IsSome(m[i].suggestion)
                       /\ IsSome(n[i].suggestion)
                       /\ Val(n[i].suggestion).status \in {"accepted", "rejected"}
                       /\ n[i] = [m[i] EXCEPT !.suggestion =
                                     Some([Val(m[i].suggestion) EXCEPT
                                              !.status = Val(n[i].suggestion).status])]]_vars

\* a suggestion that was followed by a new question has been accepted
C2_Witness ==
    \E c \in 1..Len(chats) :
        LET m == chats[c].messages
        IN  /\ Len(m) >= 5
            /\ IsSome(m[2].suggestion) /\ Val(m[2].suggestion).status = "accepted"
            /\ m[3].role = "user"
            /\ m[5].editedFile = Some("f1")

\* C3: a suggestion whose status has left pending keeps that status in
\* every step.
C3_StatusTransitionsOnce ==
    [][\A c \in 1..Len(chats) : \A i \in 1..Len(chats[c].messages) :
          LET m == chats[c].messages[i]
              n == ChatById(chats', chats[c].id).messages[i]
          IN  (IsSome(m.suggestion) /\ Val(m.suggestion).status # "pending")
                  => (IsSome(n.suggestion)
                      /\ Val(n.suggestion).status = Val(m.suggestion).status)]_vars

C6_NoSourceIsChitChat ==
    (/\ turn.chatId # NullId
     /\ ~turn.opts.useCloud /\ ~turn.opts.usePreloaded
     /\ ~turn.opts.useGoogleSearch /\ ~turn.opts.useGoogleMaps
     /\ ~turn.attachment)
        => /\ turn.pipeline = "chit_chat"
           /\ turn.classifyCalls = 0
           /\ turn.searchCalls = 0

\* such a turn, sent with code generation switched on, has streamed to its end
C6_Witness ==
    /\ turn.chatId # NullId /\ turn.pc = "idle"
    /\ turn.opts = GroundingOptions(FALSE, FALSE, FALSE, FALSE)
    /\ ~turn.attachment /\ turn.codeGen
    /\ turn.pipeline = "chit_chat" /\ turn.chunks > 0

\* C7 as stated: a routed turn that matches none of the four rules (no
\* source and no attachment; generate_code with code generation on;
\* chit_chat with attachment; chit_chat with only web search) runs the
\* grounded pipeline.
C7_OtherwiseGrounded ==
    LET o == turn.opts
        noSource == ~o.useCloud /\ ~o.usePreloaded /\ ~o.useGoogleSearch /\ ~o.useGoogleMaps
        onlyWeb == o.useGoogleSearch /\ ~o.useCloud /\ ~o.usePreloaded /\ ~o.useGoogleMaps
        rule1 == noSource /\ ~turn.attachment
        rule2 == turn.intent = "generate_code" /\ turn.codeGen
        rule3 == turn.intent = "chit_chat" /\ turn.attachment
        rule4 == turn.intent = "chit_chat" /\ ~turn.attachment /\ onlyWeb
    IN  (turn.pipeline # "none" /\ ~(rule1 \/ rule2 \/ rule3 \/ rule4))
            => turn.pipeline = "grounded"

\* C7: a routed turn classified chit_chat, without attachment, under a
\* configuration that has a source and is not web search alone, runs the
\* chit-chat pipeline; a routed turn that matches neither this nor any of
\* the four rules runs the grounded pipeline.
C7_OtherwiseGroundedButPlainChat ==
    LET o == turn.opts
        noSource == ~o.useCloud /\ ~o.usePreloaded /\ ~o.useGoogleSearch /\ ~o.useGoogleMaps
        onlyWeb == o.useGoogleSearch /\ ~o.useCloud /\ ~o.usePreloaded /\ ~o.useGoogleMaps
        rule1 == noSource /\ ~turn.attachment
        rule2 == turn.intent = "generate_code" /\ turn.codeGen
        rule3 == turn.intent = "chit_chat" /\ turn.attachment
        rule4 == turn.intent = "chit_chat" /\ ~turn.attachment /\ onlyWeb
        plainChat == turn.intent = "chit_chat" /\ ~turn.attachment /\ ~noSource /\ ~onlyWeb
    IN  turn.pipeline # "none" =>
            /\ plainChat => turn.pipeline = "chit_chat"
            /\ ~(rule1 \/ rule2 \/ rule3 \/ rule4 \/ plainChat) => turn.pipeline = "grounded"

\* a turn classified unknown, under the cloud index, runs the grounded pipeline
C7_Witness ==
    /\ turn.pipeline = "grounded"
    /\ turn.intent = "unknown"
    /\ turn.codeGen /\ ~turn.attachment /\ turn.opts.useCloud

\* C8: a routed turn with an attachment never runs the chit-chat pipeline;
\* classified chit_chat it runs the grounded pipeline, and so it does,
\* unclassified, when its text is blank.
C8_AttachmentNeverChitChat ==
    (turn.pipeline # "none" /\ turn.attachment) =>
        /\ turn.pipeline # "chit_chat"
        /\ turn.intent = "chit_chat" => turn.pipeline = "grounded"
        /\ Trim(turn.query) = <<>> =>
              (turn.pipeline = "grounded" /\ turn.intent = "query_documents"
               /\ turn.classifyCalls = 0)

\* a turn with an attachment, classified chit_chat, runs the grounded pipeline
C8_Witness ==
    /\ turn.attachment /\ turn.intent = "chit_chat"
    /\ turn.classifyCalls = 1
    /\ turn.pipeline = "grounded"

\* C9: once the classifier call of a turn has failed, the turn is routed
\* with intent query_documents and an advisory is shown to the user.
C9_ClassifierFailureSurfaced ==
    turn.classifyOutcome \in {"safety", "other", "no_key"} =>
        /\ turn.intent = "query_documents"
        /\ turn.pipeline = "grounded"
        /\ IsSome(apiError)

C11_EmptyWithoutSourceOrDataset ==
    (/\ turn.search.settled
     /\ \/ ~turn.opts.useCloud /\ ~turn.opts.usePreloaded
        \/ Len(turn.dataset) = 0)
        => turn.search.returned = <<>>

\* C11: once the retrieval of a turn has settled with the cloud index off
\* and the local dataset off or empty, the list returned is empty and no
\* error is raised or shown; with the cloud index on, an empty local
\* dataset leaves the results of the cloud index in the list.
C11_EmptyWithoutContributingSource ==
    turn.search.settled =>
        /\ (~turn.opts.useCloud /\ (~turn.opts.usePreloaded \/ Len(turn.dataset) = 0))
              => /\ turn.search.returned = <<>>
                 /\ ~turn.search.cloudFailed
                 /\ cloudSearchError = None
        /\ (turn.opts.useCloud /\ Len(turn.dataset) = 0)
              => \A i \in 1..Len(turn.search.returned) :
                    turn.search.returned[i].source.id \in CloudFileIds

\* retrieval has settled for a turn whose only source, the local dataset, is empty
C11_Witness ==
    /\ turn.search.settled
    /\ ~turn.opts.useCloud /\ turn.opts.usePreloaded /\ Len(turn.dataset) = 0
    /\ turn.search.returned = <<>>
    /\ turn.pc = "idle"

\* C12: a grounded turn whose retrieval is over with an empty context, under
\* a configuration with web or maps search on, is in fallback mode and is
\* not finalized with the no-results message; once it has called the
\* generator it has called it once, with an empty context and with an
\* external-search tool.
C12_FallbackUsesExternalSearch ==
    (/\ turn.pipeline = "grounded"
     /\ turn.pc \notin {"qd_rewrite", "qd_search"}
     /\ turn.elasticResults = <<>>
     /\ turn.opts.useGoogleSearch \/ turn.opts.useGoogleMaps)
        => /\ turn.mode = "fallback"
           /\ turn.outcome # "no_results"
           /\ turn.pc # "fb_open" =>
                 /\ turn.generator.calls = 1
                 /\ turn.generator.context = <<>>
                 /\ turn.generator.tools # {}

\* C13: a grounded turn whose retrieval is over with an empty context, under
\* a configuration with web and maps search off, has ended without a call of
\* the generator and without a fragment; the last message of its session
\* holds the no-results text and the response kind error.
C13_NoResultsWithoutGenerator ==
    (/\ turn.pipeline = "grounded"
     /\ turn.pc \notin {"qd_rewrite", "qd_search"}
     /\ turn.elasticResults = <<>>
     /\ ~turn.opts.useGoogleSearch /\ ~turn.opts.useGoogleMaps)
        => LET log == ChatById(chats, turn.chatId).messages
           IN  /\ turn.pc = "idle"
               /\ turn.outcome = "no_results"
               /\ turn.generator.calls = 0
               /\ turn.chunks = 0
               /\ log[Len(log)].content = NoResultsMsg
               /\ log[Len(log)].responseType = "Error"

\* the cloud index failed, the local dataset found nothing, and the turn
\* ended with the no-results message
C13_Witness ==
    /\ turn.outcome = "no_results"
    /\ turn.search.settled /\ turn.search.cloudFailed
    /\ turn.opts.usePreloaded /\ Len(turn.dataset) > 0
    /\ turn.generator.calls = 0

\* C14: while a stream of the chit-chat, fallback or grounded pipeline is
\* consumed, and once it has ended, the content of the last message of the
\* turn's session is the concatenation of the fragments received so far, in
\* their order, one fragment per chunk.
C14_ContentIsAllFragments ==
    (turn.pc \in StreamPcs \/ turn.outcome = "stream_end") =>
        LET log == ChatById(chats, turn.chatId).messages
        IN  /\ Len(turn.fragments) = turn.chunks
            /\ log[Len(log)].content = Flatten(turn.fragments)

\* two fragments have arrived, both with text
C14_Witness ==
    /\ turn.pc \in StreamPcs
    /\ Len(turn.fragments) = 2
    /\ turn.fragments[1] # <<>>
    /\ turn.fragments[2] # <<>>

\* C15: when a stream has failed after fragments were appended, the last
\* message of the turn's session has the response kind error and still
\* shows the content accumulated before the failure.
C15_PartialContentKept ==
    (turn.outcome = "stream_fail" /\ turn.pipeline \in {"chit_chat", "grounded"}
        /\ turn.accumulatedContent # <<>>)
        => LET log == ChatById(chats, turn.chatId).messages
               content == log[Len(log)].content
           IN  /\ log[Len(log)].responseType = "Error"
               /\ Len(content) >= Len(turn.accumulatedContent)
               /\ SubSeq(content, 1, Len(turn.accumulatedContent)) = turn.accumulatedContent

C18_FailuresFinalizeWithError ==
    turn.pipeline = "code" =>
        LET log == ChatById(chats, turn.chatId).messages
            tail == log[Len(log)]
        IN  /\ turn.outcome \in {"open_fail", "stream_fail", "parse_fail", "error_response",
                                 "malformed", "unmatched", "fetch_fail"}
                  => /\ turn.pc = "idle"
                     /\ tail.responseType = "Error"
                     /\ tail.suggestion = None
                     /\ Len(log) = turn.tailIdx
            /\ (IsSome(turn.responseObject) /\ IsSome(Val(turn.responseObject).error))
                  => /\ turn.outcome = "error_response"
                     /\ tail.content = Val(Val(turn.responseObject).error)

\* C18: a code turn that ended in a failure of the generator call, of the
\* stream, of the parse, of the path resolution or of the content fetch left
\* the last message with the response kind error and without a suggestion,
\* and appended nothing else; once the stream has ended with a response
\* whose error field holds a text that is not empty, the turn has ended with
\* that text as content; a response whose error field is empty is handled
\* as one without error field.
C18_FailuresFinalizeWithErrorText ==
    turn.pipeline = "code" =>
        LET log == ChatById(chats, turn.chatId).messages
            tail == log[Len(log)]
        IN  /\ turn.outcome \in {"open_fail", "stream_fail", "parse_fail", "error_response",
                                 "malformed", "unmatched", "fetch_fail"}
                  => /\ turn.pc = "idle"
                     /\ tail.responseType = "Error"
                     /\ tail.suggestion = None
                     /\ Len(log) = turn.tailIdx
            /\ IsSome(turn.responseObject) =>
                  LET r == Val(turn.responseObject)
                  IN  /\ (IsSome(r.error) /\ Val(r.error) # <<>>)
                            => /\ turn.outcome = "error_response"
                               /\ tail.content = Val(r.error)
                      /\ (IsSome(r.error) /\ Val(r.error) = <<>>)
                            => /\ turn.outcome # "error_response"
                               /\ r.filePath = None => turn.outcome = "malformed"

\* the generator declined with an error text and the turn ended with it
C18_Witness ==
    /\ turn.pipeline = "code" /\ turn.outcome = "error_response"
    /\ LET log == ChatById(chats, turn.chatId).messages
       IN  /\ log[Len(log)].content = <<"ambiguous request">>
           /\ log[Len(log)].responseType = "Error"

\* C19: when a turn of the code pipeline has ended, the placeholder it
\* appended holds neither the analyzing text nor the considering-edits
\* text.
C19_PlaceholderReplaced ==
    (turn.pipeline = "code" /\ turn.pc = "idle") =>
        LET placeholder == ChatById(chats, turn.chatId).messages[turn.tailIdx]
        IN  /\ placeholder.content # AnalyzingMsg
            /\ Head(placeholder.content) # "Found relevant files. Considering edits for "

\* C20: once the stream of a code turn has ended with a text that does not
\* parse, the turn has ended with the could-not-process message; with a
\* value that has no error field and lacks filePath, thought or newContent
\* (or holds an empty one), the turn has ended with the malformed-response
\* message; in both cases the last message has the response kind error and
\* no suggestion.
C20_MalformedIsFinalized ==
    (turn.pipeline = "code" /\ IsSome(turn.responseObject)) =>
        LET r == Val(turn.responseObject)
            log == ChatById(chats, turn.chatId).messages
            tail == log[Len(log)]
            lacks(field) == ~IsSome(field) \/ Val(field) = <<>>
        IN  /\ ~r.parses =>
                  /\ turn.pc = "idle" /\ turn.outcome = "parse_fail"
                  /\ tail.content =
                        <<"Sorry, I couldn't process the code generation response. It might be malformed. ">>
                            \o ParseErrorMessage
                  /\ tail.responseType = "Error" /\ tail.suggestion = None
            /\ (r.parses /\ ~IsSome(r.error)
                    /\ (lacks(r.filePath) \/ lacks(r.thought) \/ lacks(r.newContent))) =>
                  /\ turn.pc = "idle" /\ turn.outcome = "malformed"
                  /\ tail.content = MalformedMsg
                  /\ tail.responseType = "Error" /\ tail.suggestion = None

\* a response with filePath and thought but without newContent was finalized
\* as malformed
C20_Witness ==
    /\ turn.outcome = "malformed"
    /\ IsSome(turn.responseObject)
    /\ Val(turn.responseObject).filePath = Some(ContextPath(Source("f1")))
    /\ Val(turn.responseObject).thought = Some(<<"t">>)
    /\ Val(turn.responseObject).newContent = None

\* the positions of a text where a marker starts: an opening bracket, one
\* or more digits and a closing bracket
MarkerEnds(text, p) ==
    {e \in p + 2..Len(text) :
        /\ text[p] = "[" /\ text[e] = "]"
        /\ \A d \in p + 1..e - 1 : text[d] \in Digits}
\* the position in the content at which the text of node n starts
RECURSIVE OffsetOf(_, _)
OffsetOf(nodes, n) == IF n = 1 THEN 1 ELSE OffsetOf(nodes, n - 1) + Len(nodes[n - 1].text)

\* C16: the nodes rendered for a message spell its content, and with L
\* sources attached the buttons are exactly the markers [n] of the content
\* with 1 <= n <= L, each bound to the 0-based index n - 1 and to source n
\* of the list; every other marker is part of a text node; the chunk viewer
\* only ever shows the source of such a marker.
C16_MarkersResolveInRange ==
    container # <<>> =>
        LET text == MessageInView.content
            sources == IF IsSome(MessageInView.elasticSources)
                       THEN Val(MessageInView.elasticSources) ELSE <<>>
            L == Len(sources)
            buttons == {n \in 1..Len(container) : container[n].kind = "button"}
            cited == {p \in 1..Len(text) :
                        \E e \in MarkerEnds(text, p) :
                            LET num == parseInt(SubSeq(text, p + 1, e - 1))
                            IN  1 <= num /\ num <= L}
        IN  /\ Flatten([n \in 1..Len(container) |-> container[n].text]) = text
            /\ {OffsetOf(container, n) : n \in buttons} = cited
            /\ \A n \in buttons :
                  LET label == container[n].text
                      num == parseInt(SubSeq(label, 2, Len(label) - 1))
                  IN  /\ MarkerEnds(label, 1) = {Len(label)}
                      /\ 1 <= num /\ num <= L
                      /\ container[n].index = num - 1
                      /\ container[n].source = Some(sources[num])
            /\ IsSome(selectedChunkResult) =>
                  \E n \in buttons : selectedChunkResult = Some(sources[container[n].index + 1])

\* with two sources, [1] became a button whose click opened the first
\* source, while [3] and [0] stayed text
C16_Witness ==
    /\ MessageInView.content = <<"[", "1", "]", "[", "3", "]", "[", "0", "]">>
    /\ MessageInView.elasticSources = Some(<<CitedResult(1), CitedResult(2)>>)
    /\ container = <<Button(<<"[", "1", "]">>, 0, Some(CitedResult(1))),
                     TextNode(<<"[", "3", "]">>), TextNode(<<"[", "0", "]">>)>>
    /\ selectedChunkResult = Some(CitedResult(1))

\* C21: once the search of a code turn has returned without a result whose
\* file extension is in the editable allow-list, the turn has ended without
\* a call of the generator, and the last message holds the explanatory
\* text, no suggestion and the code-generation response kind, not the error
\* kind.
C21_NoEditableEndsWithoutGenerator ==
    (turn.pipeline = "code" /\ turn.search.settled
        /\ \A n \in 1..Len(turn.search.returned) :
              LET fileName == turn.search.returned[n].source.fileName
              IN  fileName[Len(fileName)] \notin {"ts", "md"}) =>
        LET log == ChatById(chats, turn.chatId).messages
            tail == log[Len(log)]
        IN  /\ turn.pc = "idle" /\ turn.outcome = "no_editable"
            /\ turn.generator.calls = 0
            /\ turn.responseObject = None
            /\ Len(log) = turn.tailIdx
            /\ tail.content = NoEditableMsg
            /\ tail.suggestion = None
            /\ tail.responseType = "Code Generation"

\* the search returned the PDF of the cloud index alone and the turn ended
\* with the explanatory text
C21_Witness ==
    /\ turn.pipeline = "code" /\ turn.outcome = "no_editable"
    /\ Ids(turn.search.returned) = <<"f3">>
    /\ LET log == ChatById(chats, turn.chatId).messages
       IN  log[Len(log)].content = NoEditableMsg

\* the occurrences of the files in the lists handed to the fusion
Occurrences(lists) ==
    {<<l, r>> \in (1..Len(lists)) \X (1..MaxRank + 1) : r <= Len(lists[l])}
FusedIds(lists) == {lists[o[1]][o[2]].source.id : o \in Occurrences(lists)}
\* the sum over the occurrences of id of RrfScale / (60 + rank)
RECURSIVE SumOver(_, _, _)
SumOver(occurrences, lists, id) ==
    IF occurrences = {} THEN 0
    ELSE LET o == CHOOSE x \in occurrences : TRUE
         IN  (IF lists[o[1]][o[2]].source.id = id THEN RrfScale \div (60 + o[2]) ELSE 0)
                + SumOver(occurrences \ {o}, lists, id)
SummedScore(lists, id) == SumOver(Occurrences(lists), lists, id)

C24_CreatedSessionIsFirstAndActive ==
    [][/\ Len(chats') > Len(chats) =>
            /\ Len(chats') = Len(chats) + 1
            /\ ~HasChat(chats, chats'[1].id)
            /\ activeChatId' = chats'[1].id
            /\ \A i \in 1..Len(chats) : chats'[i + 1] = chats[i]
       /\ (stateService'.last.op = "addChat" /\ stateService' # stateService) =>
            /\ Len(stateService'.chats) = Len(stateService.chats) + 1
            /\ stateService'.chats[1].id = stateService'.last.chatId
            /\ \A i \in 1..Len(stateService.chats) :
                  stateService.chats[i].id # stateService'.last.chatId
            /\ stateService'.activeChatId = stateService'.chats[1].id
            /\ \A i \in 1..Len(stateService.chats) :
                  stateService'.chats[i + 1] = stateService.chats[i]]_vars

\* both stores hold a session created after others, first and active
C24_Witness ==
    /\ Len(chats) = 2 /\ chats[1].id = 2 /\ activeChatId = 2
    /\ stateService.last.op = "addChat"
    /\ Len(stateService.chats) = 3
    /\ stateService.chats[1].id = stateService.last.chatId
    /\ stateService.activeChatId = stateService.last.chatId

\* C25: a deletion in the StateService removes the session named and no
\* other; if that session was active, the first of the remaining sessions,
\* which is the one created last, becomes active, or none if none remains;
\* otherwise the active id is unchanged. In every state the active id is
\* none or the id of a session in the list.
C25_DeleteKeepsActivePointerValid ==
    /\ [](\/ stateService.activeChatId = NullId
          \/ \E i \in 1..Len(stateService.chats) :
                stateService.chats[i].id = stateService.activeChatId)
    /\ [][(stateService'.last.op = "deleteChat" /\ stateService' # stateService) =>
            LET chatId == stateService'.last.chatId
                before == stateService.chats
                after == stateService'.chats
                kept == {i \in 1..Len(before) : before[i].id # chatId}
            IN  /\ Len(after) = Cardinality(kept)
                /\ Cardinality(kept) = Len(before) - 1
                /\ \A i \in kept :
                      after[Cardinality({j \in kept : j <= i})] = before[i]
                /\ stateService.activeChatId # chatId =>
                      stateService'.activeChatId = stateService.activeChatId
                /\ (stateService.activeChatId = chatId /\ after = <<>>) =>
                      stateService'.activeChatId = NullId
                /\ (stateService.activeChatId = chatId /\ after # <<>>) =>
                      \E i \in 1..Len(after) :
                          /\ stateService'.activeChatId = after[i].id
                          /\ \A j \in 1..Len(after) : after[j].createdAt <= after[i].createdAt
          ]_vars

\* the session created last was deleted while active, and the one created
\* before it became active
C25_Witness ==
    /\ stateService.last = [op |-> "deleteChat", chatId |-> 3]
    /\ Len(stateService.chats) = 2
    /\ stateService.chats[1].id = 2
    /\ stateService.activeChatId = 2

\* C26: in the StateService, a call of addMessage or updateLastMessage
\* without active session, and a call of updateLastMessage on an active
\* session with an empty log, leave the sessions as they are; in App.tsx,
\* addMessageToActiveChat and updateLastMessageInActiveChat return the list
\* they were given when the active id is none or names no session, and so
\* does updateLastMessageInActiveChat for a session with an empty log.
C26_StoreUpdatesAreNoOpsWithoutTarget ==
    /\ [](LET updater == [msg \in MessagesOf(chats) |-> [msg EXCEPT !.content = <<"x">>]]
          IN  /\ \A id \in {NullId, nextId}, message \in ServiceMessages :
                    /\ addMessageToActiveChat(chats, id, message) = chats
                    /\ updateLastMessageInActiveChat(chats, id, updater) = chats
              /\ \A i \in 1..Len(chats) :
                    chats[i].messages = <<>> =>
                        updateLastMessageInActiveChat(chats, chats[i].id, updater) = chats)
    /\ [][stateService'.last.op \in {"addMessage", "updateLastMessage"} =>
            /\ (\A i \in 1..Len(stateService.chats) :
                    stateService.chats[i].id # stateService.activeChatId)
                  => stateService'.chats = stateService.chats
            /\ (/\ stateService'.last.op = "updateLastMessage"
                /\ \A i \in 1..Len(stateService.chats) :
                      stateService.chats[i].id = stateService.activeChatId
                          => stateService.chats[i].messages = <<>>)
                  => stateService'.chats = stateService.chats
            /\ stateService'.activeChatId = stateService.activeChatId]_vars

\* updateLastMessage was called on an active session with an empty log, next
\* to a session that holds messages
C26_Witness ==
    /\ stateService.last.op = "updateLastMessage"
    /\ stateService.last.chatId = stateService.activeChatId
    /\ \E i, j \in 1..Len(stateService.chats) :
          /\ stateService.chats[i].id = stateService.activeChatId
          /\ stateService.chats[i].messages = <<>>
          /\ Len(stateService.chats[j].messages) = MaxMessages
    /\ \E i \in 1..Len(chats) : chats[i].id = activeChatId /\ chats[i].messages = <<>>

\* C27: the step of the load effect leaves every message of every session
\* with a citation list and an attribution list (the saved one when the item
\* held one, the empty list when not), every session with a grounding
\* configuration of four booleans (the saved fields over the baseline
\* cloud-only configuration, the baseline itself when the item held none),
\* the restored sessions being the saved ones, and the active id naming one
\* of the sessions: the saved active id when it names a restored session, or
\* the one fresh empty session when none was restored.
C27_RestoreBackfillsAndDefaults ==
    [][(~mount.done /\ mount'.done) =>
        LET saved == mount.savedState
            parsed == IsSome(saved) /\ saved # Some(Corrupt)
            savedChats ==
                IF parsed /\ "chats" \in DOMAIN Val(saved) THEN Val(saved).chats ELSE <<>>
            fields == {"useCloud", "usePreloaded", "useGoogleSearch", "useGoogleMaps"}
            baseline == [useCloud |-> TRUE, usePreloaded |-> FALSE,
                         useGoogleSearch |-> FALSE, useGoogleMaps |-> FALSE]
        IN  /\ \A i \in 1..Len(chats') :
                  /\ DOMAIN chats'[i].groundingOptions = fields
                  /\ \A f \in fields : chats'[i].groundingOptions[f] \in BOOLEAN
                  /\ \A k \in 1..Len(chats'[i].messages) :
                        /\ IsSome(chats'[i].messages[k].elasticSources)
                        /\ IsSome(chats'[i].messages[k].groundingChunks)
            /\ Len(chats') = IF savedChats = <<>> THEN 1 ELSE Len(savedChats)
            /\ \A j \in 1..Len(savedChats) :
                  \E i \in 1..Len(chats') :
                      LET chat == savedChats[j]
                          restored == chats'[i]
                          log == IF "messages" \in DOMAIN chat THEN chat.messages ELSE <<>>
                      IN  /\ restored.id = chat.id
                          /\ Len(restored.messages) = Len(log)
                          /\ \A k \in 1..Len(log) :
                                /\ restored.messages[k].elasticSources =
                                      IF IsSome(log[k].elasticSources)
                                      THEN log[k].elasticSources ELSE Some(<<>>)
                                /\ restored.messages[k].groundingChunks =
                                      IF IsSome(log[k].groundingChunks)
                                      THEN log[k].groundingChunks ELSE Some(<<>>)
                                /\ restored.messages[k].content = log[k].content
                          /\ "groundingOptions" \notin DOMAIN chat =>
                                restored.groundingOptions = baseline
                          /\ "groundingOptions" \in DOMAIN chat =>
                                \A f \in fields :
                                    restored.groundingOptions[f] =
                                        IF f \in DOMAIN chat.groundingOptions
                                        THEN chat.groundingOptions[f] ELSE baseline[f]
            /\ HasChat(chats', activeChatId')
            /\ savedChats = <<>> =>
                  /\ chats'[1].messages = <<>>
                  /\ chats'[1].groundingOptions = baseline
            /\ (/\ parsed
                /\ "activeChatId" \in DOMAIN Val(saved)
                /\ \E j \in 1..Len(savedChats) : savedChats[j].id = Val(saved).activeChatId)
                  => activeChatId' = Val(saved).activeChatId
       ]_vars

\* two sessions were restored from an item whose active id names neither:
\* the later one, saved without configuration and with an answer that lacks
\* the attribution list, is active; the earlier one keeps its saved lists
\* and has its partial configuration completed
C27_Witness ==
    /\ mount.done
    /\ uiOps = 0
    /\ IsSome(mount.savedState)
    /\ "activeChatId" \in DOMAIN Val(mount.savedState)
    /\ Val(mount.savedState).activeChatId = 7
    /\ Len(chats) = 2
    /\ activeChatId = 2
    /\ Len(chats[1].messages) = 2
    /\ Len(chats[2].messages) = 2
    /\ chats[1].groundingOptions = GroundingOptions(TRUE, FALSE, FALSE, FALSE)
    /\ chats[1].messages[2].groundingChunks = Some(<<>>)
    /\ chats[2].groundingOptions = GroundingOptions(FALSE, FALSE, FALSE, FALSE)
    /\ chats[2].messages[2] = SavedAnswer
    /\ chats[2].messages[1].elasticSources = Some(<<>>)

\* C28: in the grounded pipeline, rewriteQuery is called only for a message
\* whose trimmed length exceeds the threshold under a configuration with the
\* cloud index, web search or maps enabled; once the rewrite is behind, the
\* query handed to retrieval is the trimmed reply when the call succeeded
\* with a non-blank reply and the text of the message in every other case;
\* and the step on which the rewrite returns, failed or not, dispatches
\* retrieval when an index is enabled, reports no error and leaves the turn
\* running or ended by the pipeline's own decision, never by the rewrite.
C28_RewriteIsBestEffort ==
    /\ [](turn.pipeline = "grounded" =>
            LET needsRewrite ==
                    turn.opts.useCloud \/ turn.opts.useGoogleSearch \/ turn.opts.useGoogleMaps
                nonTrivial == Len(Trim(turn.query)) > 3
            IN  /\ turn.rewrite.called => (needsRewrite /\ nonTrivial)
                /\ (needsRewrite /\ nonTrivial) =>
                        (turn.rewrite.called \/ turn.pc = "qd_rewrite")
                /\ turn.pc # "qd_rewrite" =>
                      turn.queryToUse =
                          IF turn.rewrite.called /\ turn.rewrite.succeeded
                                /\ Trim(turn.rewrite.reply) # <<>>
                          THEN Trim(turn.rewrite.reply)
                          ELSE turn.query
                /\ turn.searchCalls > 0 => (turn.opts.useCloud \/ turn.opts.usePreloaded))
    /\ [][(~turn.rewrite.called /\ turn'.rewrite.called) =>
            /\ apiError' = apiError
            /\ turn'.query = turn.query
            /\ (turn.opts.useCloud \/ turn.opts.usePreloaded) =>
                  /\ turn'.pc = "qd_search"
                  /\ turn'.searchCalls = turn.searchCalls + 1
                  /\ isLoading'
            /\ ~(turn.opts.useCloud \/ turn.opts.usePreloaded) =>
                  /\ turn'.pc = "fb_open"
                  /\ turn'.searchCalls = turn.searchCalls]_vars

\* the rewrite failed and retrieval was dispatched with the text of the message
C28_Witness ==
    /\ turn.pipeline = "grounded"
    /\ turn.rewrite.called
    /\ ~turn.rewrite.succeeded
    /\ apiKeySet
    /\ turn.pc = "qd_search"
    /\ turn.searchCalls = 1
    /\ turn.queryToUse = turn.query
    /\ Len(turn.query) > 3

\* C29: on every fragment of a fallback stream the entries collected for
\* the message are those of the first location, in the order
\* groundingMetadata.groundingAttributions, citationMetadata.citationSources,
\* that holds a non-empty list; in particular the entries of citationSources
\* are collected whenever groundingAttributions is absent or empty.
C29_FirstNonEmptyLocationWins ==
    [][(turn.pc = "fb_stream" /\ Len(turn'.metas) = Len(turn.metas) + 1) =>
        LET meta == turn'.metas[Len(turn'.metas)]
            Holds(location) == IsSome(location) /\ Val(location) # <<>>
            collected ==
                IF Holds(meta.groundingAttributions) THEN Val(meta.groundingAttributions)
                ELSE IF Holds(meta.citationSources) THEN Val(meta.citationSources)
                ELSE <<>>
        IN  turn'.allGroundingAttributions = turn.allGroundingAttributions \o collected
      ]_vars

\* C30: once a fallback stream has ended, the attribution list of the tail
\* message holds each uri collected during the stream, whether it came as a
\* direct uri, under web or under maps, in exactly one entry.
C30_AttributionsUniqueByUri ==
    (turn.mode = "fallback" /\ turn.outcome = "stream_end") =>
        LET message == ChatById(chats, turn.chatId).messages[turn.tailIdx]
            list == Val(message.groundingChunks)
            UriOf(entry) == IF IsSome(entry.web) THEN entry.web ELSE entry.maps
            collected ==
                {KeyOf(turn.allGroundingAttributions[i]) :
                    i \in 1..Len(turn.allGroundingAttributions)} \ {None}
        IN  /\ IsSome(message.groundingChunks)
            /\ \A i, j \in 1..Len(list) : UriOf(list[i]) = UriOf(list[j]) => i = j
            /\ {UriOf(list[i]) : i \in 1..Len(list)} = collected

\* a stream ended after it surfaced u1 under web and as a direct uri, and u2:
\* the message holds two entries
C30_Witness ==
    /\ turn.mode = "fallback"
    /\ turn.outcome = "stream_end"
    /\ \E i, j \in 1..Len(turn.allGroundingAttributions) :
          /\ turn.allGroundingAttributions[i] = Attribution(None, Some("u1"), None)
          /\ turn.allGroundingAttributions[j] = Attribution(Some("u1"), None, None)
    /\ \E i \in 1..Len(turn.allGroundingAttributions) :
          KeyOf(turn.allGroundingAttributions[i]) = Some("u2")
    /\ Len(Val(ChatById(chats, turn.chatId).messages[turn.tailIdx].groundingChunks)) = 2

\* C31: with an API key, every step on which the generator fails with an
\* error of the safety class, be it when a stream is opened (chit-chat,
\* grounded, fallback, code) or while one is consumed, leaves the tail
\* message of the turn with one of the safety-filter messages.
C31_SafetyFailureGetsSafetyMessage ==
    [][(/\ apiKeySet
        /\ \/ ChitChatOpen("safety")
           \/ GroundedOpen("safety")
           \/ CodeOpen("safety")
           \/ StreamFail(SdkSafetyError)
           \/ CodeStreamFail(SdkSafetyError))
        => ChatById(chats', turn.chatId).messages[turn.tailIdx].content
               \in {SafetyMsgChat, SafetyMsgRag, SafetyMsgCode}]_vars

\* C32: when the code stream ends with a response that parses, reports no
\* error and holds filePath, thought and newContent, the path resolves to a
\* file of the index exactly when it is that file's path, "/" and file
\* name, also for a file whose path is empty; when no file of the index has
\* that path, the turn ends with the message that the path could not be
\* matched and without suggestion.
C32_PathResolvesByExactMatch ==
    [][\A responseObject \in PipelineCodeResponses, cloudListed \in BOOLEAN :
        (/\ CodeStreamDone(responseObject, cloudListed)
         /\ responseObject.parses
         /\ ~Truthy(responseObject.error)
         /\ HasSuccessFields(responseObject)) =>
            LET index == allFiles(turn.opts, turn.dataset, cloudListed)
                named == {f \in index :
                             Source(f).path \o <<"/">> \o Source(f).fileName
                                 = Val(responseObject.filePath)}
                message == ChatById(chats', turn.chatId).messages[turn.tailIdx]
            IN  /\ named # {} => (turn'.pc = "cg_fetch" /\ turn'.file \in {Some(f) : f \in named})
                /\ named = {} =>
                      /\ turn'.pc = "idle"
                      /\ message.suggestion = None
                      /\ message.content =
                            <<"The model suggested editing a file path I couldn't match: ">>
                                \o Val(responseObject.filePath)
                                \o <<". Please check the path relative to your data source.">>
      ]_vars

\* C33: once the grounded pipeline has called the generator with a
\* non-empty context, the citation list of the tail message is that context,
\* the same results in the same order, and holds between one and ten.
C33_CitationsAreGeneratorContext ==
    (turn.pipeline = "grounded" /\ turn.mode = "rag" /\ turn.generator.calls > 0) =>
        LET message == ChatById(chats, turn.chatId).messages[turn.tailIdx]
        IN  /\ turn.generator.context # <<>>
            /\ Len(turn.generator.context) <= 10
            /\ message.elasticSources = Some(turn.generator.context)

\* the generator was called with two results and the message lists the two
C33_Witness ==
    /\ turn.pipeline = "grounded"
    /\ turn.mode = "rag"
    /\ turn.pc = "rag_stream"
    /\ turn.generator.calls = 1
    /\ Len(turn.generator.context) = 2
    /\ turn.generator.context[1].source.id # turn.generator.context[2].source.id
    /\ ChatById(chats, turn.chatId).messages[turn.tailIdx].elasticSources
           = Some(turn.generator.context)

\* the entries of a dataset that belong to the file with this id
EntriesOf(dataset, id) == {i \in 1..Len(dataset) : dataset[i].source.id = id}

C35_PlaceholderBeforeTheCalls ==
    LET log == ChatById(chats, turn.chatId).messages
    IN  /\ (turn.pipeline = "grounded" /\ turn.pc \in {"qd_rewrite", "qd_search"}) =>
              /\ turn.generator.calls = 0
              /\ turn.pc = "qd_rewrite" => (turn.searchCalls = 0 /\ ~turn.rewrite.called)
              /\ turn.tailIdx = Len(log)
              /\ log[Len(log) - 1].role = "user"
              /\ log[Len(log)] =
                    [ChatMessage("model", <<>>, "RAG") EXCEPT
                        !.elasticSources = Some(<<>>), !.groundingChunks = Some(<<>>)]
        /\ (turn.pipeline = "grounded" /\ turn.pc \in {"fb_open", "rag_open"}) =>
              /\ turn.generator.calls = 0
              /\ turn.tailIdx = Len(log)
              /\ log[Len(log)].role = "model"
              /\ log[Len(log)].content = <<>>
              /\ log[Len(log)].groundingChunks = Some(<<>>)
        /\ (turn.pipeline = "code" /\ turn.pc = "cg_search") =>
              /\ turn.generator.calls = 0
              /\ turn.tailIdx = Len(log)
              /\ log[Len(log) - 1].role = "user"
              /\ log[Len(log)].role = "model"
              /\ log[Len(log)].content = AnalyzingMsg
              /\ log[Len(log)].responseType = "Code Generation"

\* a grounded turn whose rewrite call is in flight, the placeholder behind
\* the user message
C35_Witness ==
    /\ turn.pipeline = "grounded" /\ turn.pc = "qd_rewrite"
    /\ ~turn.rewrite.called /\ turn.searchCalls = 0 /\ turn.generator.calls = 0
    /\ LET log == ChatById(chats, turn.chatId).messages
       IN  /\ log[Len(log)].role = "model" /\ log[Len(log)].content = <<>>
           /\ log[Len(log) - 1].role = "user"

\* the log of the session as it was restored, before the turn
RestoredLog == Val(mount.savedState).chats[1].messages

\* C36: a turn accepted by handleSendMessage grows the log of its session by
\* exactly two messages, the user message followed by one model message:
\* during the turn the log holds the earlier messages, the user message and
\* at most the one model message, and when the turn is over it holds both,
\* whichever pipeline ran and however it ended.
C36_TurnAddsUserAndOneModelMessage ==
    turns = 1 =>
        LET log == ChatById(chats, turn.chatId).messages
            before == Len(RestoredLog)
        IN  /\ Len(log) \in {before + 1, before + 2}
            /\ \A i \in 1..before : log[i].role = RestoredLog[i].role
            /\ log[before + 1].role = "user"
            /\ log[before + 1].content = turn.query
            /\ Len(log) = before + 2 => log[before + 2].role = "model"
            /\ turn.pipeline # "none" => Len(log) = before + 2
            /\ turn.pc = "idle" => Len(log) = before + 2

\* a code turn ended on a failure of the generator call, with its two messages
C36_Witness ==
    /\ turns = 1 /\ turn.pc = "idle"
    /\ turn.pipeline = "code" /\ turn.outcome # "none" /\ turn.generator.calls = 1
    /\ ~IsSome(turn.file)
    /\ LET log == ChatById(chats, turn.chatId).messages
       IN  /\ Len(log) = Len(RestoredLog) + 2
           /\ log[Len(log)].role = "model" /\ log[Len(log)].responseType = "Error"
           /\ log[Len(log) - 1].role = "user"

LogOf(cs, id) == IF HasChat(cs, id) THEN ChatById(cs, id).messages ELSE <<>>

\* C38: every step of a turn, from the send on, writes the log of the
\* session in which the turn started and the log of no other session,
\* also after the user has created or selected another session during the
\* turn.
C38_TurnWritesItsOwnSession ==
    [][turn' # turn =>
          /\ turn.pc # "idle" => turn'.chatId = turn.chatId
          /\ turn.pc = "idle" => turn'.chatId = activeChatId
          /\ Len(chats') = Len(chats)
          /\ \A i \in 1..Len(chats) :
                /\ chats'[i].id = chats[i].id
                /\ chats[i].id # turn'.chatId => chats'[i].messages = chats[i].messages
          /\ activeChatId # turn'.chatId =>
                (chats' # chats =>
                    LogOf(chats', turn'.chatId) # LogOf(chats, turn'.chatId))]_vars

\* the turn started in session 1 has streamed its answer to the end after the
\* user created another session: the answer is in session 1 and the log of
\* the new session is empty
C38_Witness ==
    /\ turns = 1 /\ turn.pc = "idle" /\ turn.chatId = 1
    /\ activeChatId = 2 /\ Len(chats) = 2
    /\ turn.chunks > 0
    /\ LogOf(chats, 2) = <<>>
    /\ LET log == LogOf(chats, 1)
       IN  /\ Len(log) = 4
           /\ log[4].role = "model" /\ log[4].content # <<>>

\* C39: every started turn eventually clears isLoading, whichever pipeline
\* runs and however it ends, provided every external call of the turn
\* eventually returns or fails.
C39_LoadingEventuallyClears == isLoading ~> ~isLoading

\* a code turn that went through retrieval, generation and the fetch of the
\* file is over and no longer loading
C39_Witness ==
    /\ turns = 1 /\ ~isLoading /\ turn.pc = "idle"
    /\ turn.pipeline = "code" /\ turn.fetch.settled

\* C40 as stated: a step that appends a message, replaces a tail or sets the
\* grounding configuration (any step that keeps the sessions of the list)
\* changes only the active session: every other session keeps its messages,
\* dataset, grounding configuration and title, and the list keeps its order.
C40_OnlyTheActiveSessionChanges ==
    [][Len(chats') = Len(chats) =>
          \A i \in 1..Len(chats) :
              /\ chats'[i].id = chats[i].id
              /\ chats[i].id # activeChatId => chats'[i] = chats[i]]_vars

====
